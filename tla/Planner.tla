-------------------------------- MODULE Planner --------------------------------
(***************************************************************************)
(* From a checkpoint and a host to a running engine: what Fetch reads out  *)
(* of a checkpoint (internal/modelspec/modelspec.go), the plan PlanFor     *)
(* derives for a host (plan.go), the page adminInspect shows, the request  *)
(* adminInstall makes of it (internal/gateway/provision.go) and the        *)
(* command the agent builds (internal/agent/engine.go).                    *)
(*                                                                         *)
(* The plan is a pure function; time passes between the page and the       *)
(* install, in which the host may become another one, the page may be an   *)
(* old one that lacks fields, and HuggingFace may stop answering.          *)
(*                                                                         *)
(* Memory is in MiB, parameters in Mi, contexts in Ki tokens, a format's   *)
(* bytes per parameter in hundredths.  The quotients are floors, as in the *)
(* code, of these units: the result is the code's where a token's cache is *)
(* a multiple of 1 KiB and no odd number of Ki tokens is halved, and else  *)
(* rounded more coarsely.                                                  *)
(***************************************************************************)
EXTENDS Integers, Sequences, FiniteSets

CONSTANTS
    Checkpoints,   \* what is published, or lies in a local directory
    Hosts,         \* the hardware a node may report
    Contexts,      \* the contexts an operator asks for; 0 is none
    None

(* The sizes of a config.json, of a repository and of a host are natural numbers,
   0 where they are missing.  The agent reports a card by the memory it has. *)
IsConfig(c) ==
    /\ {c.layers, c.heads, c.kvHeads, c.headDim, c.hidden, c.positions, c.interval,
        c.experts} \subseteq Nat
    /\ c.types \in Seq(STRING)
    /\ {c.mamba, c.mla} \subseteq BOOLEAN

IsCheckpoint(c) ==
    /\ c.local \in BOOLEAN
    /\ {c.params, c.shards} \subseteq Nat
    /\ IsConfig(c.raw)
    /\ c.raw.nested # None => IsConfig(c.raw.nested)

IsHost(n) ==
    /\ n.gpus \in Seq([card : STRING, vram : Nat \ {0}])
    /\ {n.ram, n.disk} \subseteq Nat

ASSUME PlannerAssumption ==
    /\ \A c \in Checkpoints : IsCheckpoint(c)
    /\ \A n \in Hosts : IsHost(n)
    /\ Contexts \subseteq Nat
    /\ None \notin {"int8", "awq", "gptq", "compressed-tensors"}

VARIABLES
    ck,     \* the checkpoint the operator is after
    host,   \* the node as its agent last reported it
    page,   \* the inspection on the operator's screen
    cmd     \* the engine command an install has just launched

vars == <<ck, host, page, cmd>>

Lesser(a, b) == IF a <= b THEN a ELSE b
Greater(a, b) == IF a >= b THEN a ELSE b
Least(S) == CHOOSE x \in S : \A y \in S : x <= y
Greatest(S) == CHOOSE x \in S : \A y \in S : x >= y

-----------------------------------------------------------------------------
(* The language model's part of config.json: multimodal wrappers nest it. *)
LanguageConfig(c) ==
    IF c.layers > 0 \/ c.nested = None \/ c.nested.layers = 0 THEN c ELSE c.nested

(* Layers with a cache that grows, and whether there are others. *)
AttentionLayout(c) ==
    IF c.types # <<>>
      THEN LET full == {i \in DOMAIN c.types : c.types[i] = "full"} IN
           [full |-> Cardinality(full), hybrid |-> full # DOMAIN c.types]
      ELSE IF c.interval > 1 /\ c.layers > 0
      THEN [full |-> c.layers \div c.interval, hybrid |-> TRUE]
      ELSE [full |-> c.layers, hybrid |-> c.mamba]

(* The scheme of one group of a compressed-tensors checkpoint. *)
GroupScheme(g) ==
    CASE g.bits \in 1..4 /\ g.float -> "nvfp4"
      [] g.bits \in 1..4 /\ ~g.float -> "awq"
      [] g.bits = 8 /\ g.float -> "fp8"
      [] g.bits = 8 /\ ~g.float -> "int8"
      [] OTHER -> None

(* scheme ranges over the groups in map order, which differs from run to run:
   any legible group may be the one that counts. *)
Schemes(q) ==
    IF q.method # "compressed-tensors"
      THEN {IF q.bits = 8 /\ q.method \in {"awq", "gptq"} THEN "int8" ELSE q.method}
      ELSE LET legible == {GroupScheme(g) : g \in q.groups} \ {None} IN
           IF legible = {} THEN {"compressed-tensors"} ELSE legible

Bytes(dtype) ==
    CASE dtype \in {"float32"} -> 400
      [] dtype \in {"float8_e4m3fn", "int8"} -> 100
      [] dtype \in {"fp4"} -> 50
      [] OTHER -> 200

(* What a checkpoint says of its quantization: the language model's part first. *)
PublishedQuant(c) ==
    LET cfg == LanguageConfig(c.raw) IN IF cfg.quant = None THEN c.raw.quant ELSE cfg.quant

(* What Fetch or fetchLocal makes of a checkpoint, with the layout of the config
   each of them asks: a published one is asked for the language model's, a local
   one for the wrapper's. *)
Layout(c) == AttentionLayout(IF c.local THEN c.raw ELSE LanguageConfig(c.raw))

Infos(c) ==
    LET cfg == LanguageConfig(c.raw)
        quant == PublishedQuant(c)
    IN {[arch |-> c.raw.arch, positions |-> cfg.positions, layers |-> cfg.layers,
         kvHeads |-> IF cfg.kvHeads = 0 THEN cfg.heads ELSE cfg.kvHeads,
         headDim |-> IF cfg.headDim = 0 /\ cfg.heads > 0
                       THEN cfg.hidden \div cfg.heads ELSE cfg.headDim,
         moe |-> cfg.experts > 0, mla |-> cfg.mla,
         full |-> Layout(c).full, hybrid |-> Layout(c).hybrid,
         quant |-> scheme, bytes |-> c.shards,
         params |-> IF c.local THEN (c.shards * 100) \div Bytes(cfg.dtype) ELSE c.params,
         local |-> c.local, gguf |-> c.local /\ c.gguf # {}]
        : scheme \in IF quant = None THEN {None} ELSE Schemes(quant)}

-----------------------------------------------------------------------------
(* The constants of plan.go. *)
MinConcurrency == 8
DefaultSeqs == 256
ContextFloor == 8
CPUContext == 32
CPUHeadroom == 4096
DownloadOverhead == 2048

QuantBytes(q) ==
    CASE q = "fp32" -> 400
      [] q \in {"fp8", "int8"} -> 100
      [] q \in {"awq", "gptq", "nvfp4"} -> 60
      [] q = "q4_k_m" -> 58
      [] q = "q8_0" -> 106
      [] OTHER -> 200

Sized(params, q) == (params * QuantBytes(q)) \div 100

(* Served as published, a checkpoint weighs what its shards weigh. *)
WeightBytes(info, q, asPublished) ==
    IF asPublished /\ info.bytes > 0 THEN info.bytes ELSE Sized(info.params, q)

DownloadBytes(info, q) == Sized(info.params, q) + DownloadOverhead

(* Per Ki tokens, K and V at two bytes an element. *)
KVBytesPerToken(info) ==
    IF info.layers = 0 THEN 0
    ELSE (4 * (IF info.full > 0 THEN info.full ELSE info.layers) * info.kvHeads
            * info.headDim) \div 1024

ChooseContext(info, want) ==
    IF want > 0
      THEN IF info.positions > 0 THEN Lesser(want, info.positions) ELSE want
      ELSE IF info.positions > 0 THEN info.positions ELSE 8

LargestValidTP(gpus, kvHeads) ==
    Greatest({1} \cup {tp \in 1..gpus : gpus % tp = 0 /\ (kvHeads = 0 \/ kvHeads % tp = 0)})

(* What archOf knows of a card.  The two lists of names overlap and are not the
   same: a B300 is on the second only. *)
HasFP8 == {"L40", "H100", "B200"}
Blackwell == {"B200", "B300"}

ArchOf(card) ==
    CASE card = "P100" -> [can |-> {}, crippled |-> FALSE]
      [] card = "P40" -> [can |-> {}, crippled |-> TRUE]
      [] card = "V100" -> [can |-> {}, crippled |-> FALSE]
      [] card = "T4" -> [can |-> {"int4"}, crippled |-> FALSE]
      [] card \in HasFP8 ->
           [can |-> {"bf16", "fp8", "fp8Weights", "int4", "fp8KVCache"}
                    \cup (IF card \in Blackwell THEN {"nvfp4"} ELSE {}),
            crippled |-> FALSE]
      [] OTHER -> [can |-> {"bf16", "fp8Weights", "int4", "fp8KVCache"}, crippled |-> FALSE]

(* A mutant: the node is what its first card is. *)
NodeArchOfFirst(gpus) == ArchOf(gpus[1].card)

(* Capabilities are met, limitations joined. *)
NodeArch(gpus) ==
    [can |-> {c \in ArchOf(gpus[1].card).can :
                \A i \in DOMAIN gpus : c \in ArchOf(gpus[i].card).can},
     crippled |-> \E i \in DOMAIN gpus : ArchOf(gpus[i].card).crippled]

NativePrecision(a) ==
    IF a.crippled THEN "fp32" ELSE IF "bf16" \in a.can THEN "bf16" ELSE "fp16"

CanonicalQuant(published) ==
    CASE published = "fbgemm_fp8" -> "fp8"
      [] published = "awq_marlin" -> "awq"
      [] published = "gptq_marlin" -> "gptq"
      [] published \in {"modelopt_fp4", "mxfp4"} -> "nvfp4"
      [] OTHER -> published

CanRunQuant(a, q) ==
    CASE q \in {"fp8", "compressed-tensors"} -> a.can \cap {"fp8", "fp8Weights"} # {}
      [] q \in {"awq", "gptq"} -> "int4" \in a.can
      [] q \in {"nvfp4", "bf16"} -> q \in a.can
      [] OTHER -> TRUE

(* A mutant: the largest card. *)
PerGPUVRAMLargest(gpus) == Greatest({gpus[i].vram : i \in DOMAIN gpus})

(* The smallest card: tensor parallelism shards evenly. *)
PerGPUVRAM(gpus) == Least({gpus[i].vram : i \in DOMAIN gpus})

CudaOlderThan(a, b) ==
    a # None /\ b # None /\ (a[1] < b[1] \/ (a[1] = b[1] /\ a[2] < b[2]))

-----------------------------------------------------------------------------
(* A plan with nothing to run. *)
NoPlan(quant, fromCkpt, tp, why) ==
    [engine |-> "vllm", quant |-> quant, fromCkpt |-> fromCkpt, kv |-> "", tp |-> tp,
     len |-> 0, seqs |-> 0, weight |-> 0, kvPerTok |-> 0, disk |-> 0,
     smaller |-> {}, stream |-> FALSE, blockers |-> {why}]

(* The weights do not fit: the formats of smaller publications this node could
   run, if one of fp8 and awq would leave room, and whether the experts of a
   mixture could stream from host memory. *)
Overflow(info, node, tp, a, quant, usable) ==
    LET weight == WeightBytes(info, quant, info.quant # None)
        fits == {f \in {"fp8", "awq"} : /\ QuantBytes(f) < QuantBytes(quant)
                                        /\ CanRunQuant(a, f)
                                        /\ usable > Sized(info.params, f)}
    IN [NoPlan(quant, info.quant # None, tp, "weights") EXCEPT
          !.weight = weight,
          !.smaller = IF fits = {} THEN {}
                      ELSE {f \in {"fp8", "awq", "gptq", "nvfp4"} : CanRunQuant(a, f)},
          !.stream = info.moe /\ weight < usable + (node.ram * 75) \div 100]

(* A mutant: the comparison is the wrong way round. *)
TrimWhileRoomy(len, floor, tokens) ==
    LET trim[l \in Nat] == IF l > floor /\ tokens \div l > MinConcurrency
                             THEN trim[l \div 2] ELSE l
    IN trim[len]

(* Halve the context until MinConcurrency requests fit, down to the floor. *)
Trim(len, floor, tokens) ==
    LET trim[l \in Nat] == IF l > floor /\ tokens \div l < MinConcurrency
                             THEN trim[l \div 2] ELSE l
    IN trim[len]

(* The KV cache gets what the weights leave. *)
Capacity(info, node, want, tp, a, quant, usable) ==
    LET fromCkpt == info.quant # None
        weight == WeightBytes(info, quant, fromCkpt)
        kv == IF "fp8KVCache" \in a.can /\ ~info.hybrid THEN "fp8" ELSE "auto"
        perTok == KVBytesPerToken(info) \div (IF kv = "fp8" THEN 2 ELSE 1)
        chosen == ChooseContext(info, want)
        tokens == (usable - weight) \div perTok
        len == IF perTok = 0 THEN chosen
               ELSE Trim(chosen, IF want > 0 THEN chosen ELSE ContextFloor, tokens)
        disk == DownloadBytes(info, quant)
    IN [engine |-> "vllm", quant |-> quant, fromCkpt |-> fromCkpt, kv |-> kv, tp |-> tp,
        len |-> len,
        seqs |-> IF perTok = 0 THEN 1 ELSE Lesser(DefaultSeqs, Greater(1, tokens \div len)),
        weight |-> weight, kvPerTok |-> perTok, disk |-> disk,
        smaller |-> {}, stream |-> FALSE,
        blockers |-> (IF node.disk > 0 /\ node.disk < disk THEN {"disk"} ELSE {})
                     \cup (IF node.ram > 0 /\ node.ram * 3 < weight THEN {"ram"} ELSE {})]

PlanGPU(info, node, want) ==
    LET tp == LargestValidTP(Len(node.gpus), IF info.mla THEN 0 ELSE info.kvHeads)
        a == NodeArch(node.gpus)
        quant == IF info.quant = None THEN NativePrecision(a) ELSE CanonicalQuant(info.quant)
        usable == (PerGPUVRAM(node.gpus) * tp * 90) \div 100
    IN CASE CudaOlderThan(node.driver, node.torch) -> NoPlan("", FALSE, tp, "driver")
         [] OTHER ->
            IF ~CanRunQuant(a, quant) THEN NoPlan(quant, info.quant # None, tp, "format")
            ELSE IF usable <= WeightBytes(info, quant, info.quant # None)
            THEN Overflow(info, node, tp, a, quant, usable)
            ELSE Capacity(info, node, want, tp, a, quant, usable)

(* llama.cpp with a 4-bit conversion, four requests at most. *)
PlanCPU(info, node, want) ==
    LET quant == "q4_k_m"
        weight == Sized(info.params, quant)
        perTok == KVBytesPerToken(info)
        len == Lesser(CPUContext, ChooseContext(info, want))
        budget == node.ram - CPUHeadroom - weight
        disk == DownloadBytes(info, quant)
    IN [engine |-> "llamacpp", quant |-> quant, fromCkpt |-> FALSE, kv |-> "", tp |-> 1,
        len |-> len,
        seqs |-> IF budget <= 0 \/ perTok = 0 THEN 4
                 ELSE Lesser(4, Greater(1, (budget \div perTok) \div len)),
        weight |-> weight, kvPerTok |-> perTok, disk |-> disk,
        smaller |-> {}, stream |-> FALSE,
        blockers |-> IF budget <= 0 THEN {"weights"}
                     ELSE IF node.disk > 0 /\ node.disk < disk THEN {"disk"} ELSE {}]

PlanFor(info, node, want) ==
    IF node.gpus # <<>> THEN PlanGPU(info, node, want) ELSE PlanCPU(info, node, want)

(* adminInspect adds what only the node knows: which engines it has, and which
   architectures its vLLM implements, if it has answered that. *)
Inspected(info, node, want) ==
    LET plan == PlanFor(info, node, want) IN
    [plan EXCEPT !.blockers = @
        \cup (IF plan.engine \notin node.engines THEN {"engine"} ELSE {})
        \cup (IF plan.engine = "vllm" /\ node.archs # {} /\ info.arch # None
                      /\ info.arch \notin node.archs THEN {"architecture"} ELSE {})]

Fits(plan) == plan.blockers = {}

-----------------------------------------------------------------------------
(* The quantizations of a GGUF repository, in the order PickQuant prefers them. *)
GGUFOrder == <<"q4_k_m", "q4_0", "q8_0">>

(* What PickQuant may return; an unknown listing leaves the request alone. *)
PickQuant(quants, want) ==
    IF quants = {} \/ want \in quants THEN {want}
    ELSE LET known == {i \in DOMAIN GGUFOrder : GGUFOrder[i] \in quants} IN
         IF known = {} THEN quants ELSE {GGUFOrder[Least(known)]}

(* BuildCommand: the engine's flags, or None where it has nothing to serve. *)
BuildVLLM(spec) ==
    [engine |-> "vllm", source |-> "repo", prefix |-> ~spec.hybrid, tp |-> spec.tp,
     quant |-> IF spec.quant \in {"", "bf16", "fp16"} \/ spec.fromCkpt THEN None ELSE spec.quant,
     kv |-> IF spec.kv \in {"", "auto"} THEN None ELSE spec.kv,
     len |-> spec.len, seqs |-> spec.seqs]

BuildLlamaCpp(spec) ==
    IF ~spec.localGGUF /\ ~spec.gguf THEN None
    ELSE [engine |-> "llamacpp", source |-> IF spec.localGGUF THEN "file" ELSE "gguf",
          prefix |-> FALSE, tp |-> 1, quant |-> spec.quant, kv |-> None,
          len |-> spec.len, seqs |-> spec.seqs]

BuildCommand(spec) ==
    IF spec.engine = "vllm" THEN BuildVLLM(spec) ELSE BuildLlamaCpp(spec)

(* What the page asks for.  An old page does not know of two of the fields, which
   then read false. *)
Request(old) ==
    [engine |-> page.plan.engine, quant |-> page.plan.quant, kv |-> page.plan.kv,
     hybrid |-> page.info.hybrid /\ ~old, fromCkpt |-> page.plan.fromCkpt /\ ~old,
     tp |-> page.plan.tp, len |-> page.plan.len, seqs |-> page.plan.seqs,
     gguf |-> page.gguf, localGGUF |-> FALSE]

(* A mutant: the request is trusted. *)
Trusted(req, info) == [req EXCEPT !.localGGUF = info.gguf]

(* adminInstall puts right what the checkpoint decides, if it can read it again. *)
Corrected(req, info) ==
    [req EXCEPT !.localGGUF = info.gguf, !.hybrid = info.hybrid,
                !.fromCkpt = info.quant # None, !.kv = IF info.hybrid THEN "auto" ELSE @]

-----------------------------------------------------------------------------
Init ==
    /\ ck \in Checkpoints
    /\ host \in Hosts
    /\ page = None
    /\ cmd = None

(* adminInspect; the search for a GGUF conversion may find one or not. *)
Inspect(want) ==
    /\ \E info \in Infos(ck), found \in BOOLEAN :
         LET plan == Inspected(info, host, want) IN
         page' = [info |-> info, host |-> host, want |-> want, plan |-> plan,
                  gguf |-> found /\ plan.engine = "llamacpp" /\ ~ck.local /\ ck.gguf # {}]
    /\ cmd' = None
    /\ UNCHANGED <<ck, host>>

(* The agent reports other hardware: a bigger machine, another driver, ... *)
Rehost ==
    /\ host' \in Hosts \ {host}
    /\ cmd' = None
    /\ UNCHANGED <<ck, page>>

(* adminInstall and, on the node, BuildCommand: the repository's listing and the
   checkpoint are read again, and either may be out of reach.  The page disables
   the button of a plan that does not fit; adminInstall itself asks for a context. *)
Install(old, listed, fetched) ==
    /\ page # None /\ Fits(page.plan) /\ page.plan.len > 0
    /\ \E info \in Infos(ck),
          quant \in PickQuant(IF listed THEN ck.gguf ELSE {}, page.plan.quant) :
         LET req == IF page.plan.engine = "llamacpp" /\ page.gguf
                      THEN [Request(old) EXCEPT !.quant = quant] ELSE Request(old)
             spec == IF fetched THEN Corrected(req, info) ELSE req
         IN /\ BuildCommand(spec) # None
            /\ cmd' = [old |-> old, listed |-> listed, fetched |-> fetched,
                       flags |-> BuildCommand(spec)]
    /\ UNCHANGED <<ck, host, page>>

Next ==
    \/ \E want \in Contexts : Inspect(want)
    \/ Rehost
    \/ \E old, listed, fetched \in BOOLEAN : Install(old, listed, fetched)

Spec == Init /\ [][Next]_vars

-----------------------------------------------------------------------------
(* What a plan that fits and serves more than one request reserves, weights and
   full windows together, fits in 90% of every card it is sharded over, or in the
   memory of a host without cards less what the system needs.  (A plan that fits
   serves one request even where its window does not fit: see README.) *)
WithinMemory ==
    (page # None /\ Fits(page.plan) /\ page.plan.seqs > 1) =>
        LET plan == page.plan
            need == plan.weight + plan.seqs * plan.len * plan.kvPerTok
        IN IF plan.engine = "vllm"
             THEN \A i \in DOMAIN page.host.gpus :
                     need * 100 <= page.host.gpus[i].vram * plan.tp * 90
             ELSE need + CPUHeadroom <= page.host.ram

(* A plan that fits names a weight format and a KV format that each card of a
   mixed node can run by itself. *)
RunsOnEveryCard ==
    (page # None /\ Fits(page.plan) /\ page.plan.engine = "vllm") =>
        \A i \in DOMAIN page.host.gpus :
            LET a == ArchOf(page.host.gpus[i].card) IN
            /\ CanRunQuant(a, page.plan.quant)
            /\ page.plan.kv = "fp8" => "fp8KVCache" \in a.can

(* The same node with at least the memory, whose limits were known before. *)
Roomier(new, old) ==
    /\ \A part \in {"driver", "torch", "engines", "archs"} : new[part] = old[part]
    /\ Len(new.gpus) = Len(old.gpus)
    /\ \A i \in DOMAIN new.gpus :
          new.gpus[i].card = old.gpus[i].card /\ new.gpus[i].vram >= old.gpus[i].vram
    /\ new.ram >= old.ram /\ (old.ram = 0 => new.ram = 0)
    /\ new.disk >= old.disk /\ (old.disk = 0 => new.disk = 0)

(* More memory never hurts: a model that was planned to fit still fits, with no
   shorter a context, and with as many requests where the context is the same. *)
MoreMemoryNeverHurts ==
    [][(/\ page # None /\ page' # None /\ page'.info = page.info
        /\ page'.want = page.want /\ Roomier(page'.host, page.host) /\ Fits(page.plan)) =>
          /\ Fits(page'.plan)
          /\ page'.plan.len >= page.plan.len
          /\ page'.plan.len = page.plan.len => page'.plan.seqs >= page.plan.seqs]_vars

(* What the checkpoint decides and not the operator: no prefix caching and no fp8
   cache for a hybrid model; no --quantization where the checkpoint names its own,
   and no scheme for one that was never quantized, which can only be the precision
   fp32; and of a repository of conversions a quantization that it has. *)
FlagsFit ==
    LET flags == cmd.flags
        quant == PublishedQuant(ck)
    IN /\ flags.engine = "vllm" /\ AttentionLayout(LanguageConfig(ck.raw)).hybrid =>
             ~flags.prefix /\ flags.kv = None
       /\ flags.engine = "vllm" /\ flags.quant # None =>
             (quant = None \/ quant.method = None) /\ flags.quant = "fp32"
       /\ flags.source = "gguf" /\ cmd.listed => flags.quant \in ck.gguf

(* The flags an engine is launched with are those its checkpoint calls for, if it
   is a published one, although the node may have become another since the page was
   made, the map order may yield another of its groups, and the page may be an old
   one; unless it was and the checkpoint could not be read again.  That the engine
   takes them is more than this: it has no scheme fp32 (OnlyRealSchemes). *)
FlagsFollowCheckpoint ==
    (cmd # None /\ ~ck.local /\ (cmd.old => cmd.fetched)) => FlagsFit

-----------------------------------------------------------------------------
(* "a stale admin page -- one cached before these fields existed -- cannot launch
   an engine with flags that make it exit" (provision.go, lines 234 to 236).
   Violated: HuggingFace does not answer the install, which goes by the page. *)
StalePageIsHarmless == (cmd # None /\ ~ck.local) => FlagsFit

(* "passing it explicitly as a 'quantization' is an error, so it is only set when
   it is a real scheme" (engine.go, lines 118 and 119).
   Violated: on a P40 an unquantized checkpoint is planned in fp32, which is no
   scheme and not among the two precisions that buildVLLM leaves out. *)
OnlyRealSchemes ==
    (cmd # None /\ cmd.flags.engine = "vllm") => cmd.flags.quant \notin {"fp32", "bf16", "fp16"}

(* Violated: fetchLocal reads a directory the way Fetch reads a repository
   (modelspec.go, above fetchLocal); it asks the wrapper for the layout. *)
LocalReadAlike ==
    page # None => page.info.hybrid = AttentionLayout(LanguageConfig(ck.raw)).hybrid
=============================================================================
