----------------------------- MODULE PlannerProofs -----------------------------
(***************************************************************************)
(* Proofs about Planner, for any checkpoints, hosts and contexts.          *)
(***************************************************************************)
EXTENDS Planner, TLAPS, FiniteSetTheorems, WellFoundedInduction

(***************************************************************************)
(* Induction.  A property that fails for some number fails for a least     *)
(* one; that is how what the halving of a context computes is proved.      *)
(***************************************************************************)
Below == {p \in Nat \X Nat : p[1] < p[2]}

LEMMA BelowWellFounded == IsWellFoundedOn(Below, Nat)
BY NatLessThanWellFounded, Zenon DEF OpToRel, Below

(* A set of numbers has a least element. *)
LEMMA LeastElement ==
    ASSUME NEW S \in SUBSET Nat, S # {}
    PROVE  \E x \in S : \A y \in S : x <= y
<1>1. PICK x \in S : \A y \in S : ~(<<y, x>> \in Below)
  BY BelowWellFounded, WFMin
<1>2. \A y \in S : ~(y < x)
  BY <1>1 DEF Below
<1> QED BY <1>1, <1>2

LEMMA LeastIs ==
    ASSUME NEW S \in SUBSET Nat, S # {}
    PROVE  Least(S) \in S /\ \A y \in S : Least(S) <= y
BY LeastElement DEF Least

(* ... and a greatest one, if it is bounded. *)
LEMMA GreatestIs ==
    ASSUME NEW S \in SUBSET Nat, S # {}, NEW n \in Nat, \A x \in S : x <= n
    PROVE  Greatest(S) \in S /\ \A y \in S : Greatest(S) >= y
<1> DEFINE gaps == {k \in 0..n : n - k \in S}
<1>1. gaps \in SUBSET Nat /\ gaps # {}
  <2>1. PICK x \in S : x <= n
    OBVIOUS
  <2>2. n - x \in gaps
    BY <2>1
  <2> QED BY <2>2
<1>2. PICK k \in gaps : \A l \in gaps : k <= l
  <2> HIDE DEF gaps
  <2> QED BY <1>1, LeastElement
<1>3. n - k \in S /\ \A y \in S : n - k >= y
  <2>1. \A y \in S : n - y \in gaps
    OBVIOUS
  <2>2. \A y \in S : k <= n - y
    BY <1>2, <2>1
  <2> QED BY <1>2, <2>2
<1> QED BY <1>3 DEF Greatest

-----------------------------------------------------------------------------
(* Division. *)
LEMMA DivIs ==
    ASSUME NEW a \in Nat, NEW b \in Nat \ {0}
    PROVE  /\ a \div b \in Nat
           /\ b * (a \div b) <= a
           /\ \A q \in Nat : b * q <= a => q <= a \div b
OBVIOUS

LEMMA DivGrows ==
    ASSUME NEW a \in Nat, NEW c \in Nat, NEW b \in Nat \ {0}, a <= c
    PROVE  a \div b <= c \div b
BY DivIs

-----------------------------------------------------------------------------
(***************************************************************************)
(* The halving.                                                            *)
(***************************************************************************)

(* g computes the halving of the numbers below n: a number is halved as long as
   it is in C. *)
Halves(g, C, n) ==
    \A l \in 0..n : g[l] = IF l \in C THEN g[l \div 2] ELSE l

LEMMA HalvesUpTo ==
    ASSUME NEW C \in SUBSET Nat, 0 \notin C, NEW n \in Nat
    PROVE  \E g \in [0..n -> Nat] : Halves(g, C, n)
<1> DEFINE bad == {k \in Nat : ~ \E g \in [0..k -> Nat] : Halves(g, C, k)}
<1> SUFFICES ASSUME bad # {} PROVE FALSE
  OBVIOUS
<1>1. PICK k \in bad : \A l \in bad : k <= l
  <2>1. bad \in SUBSET Nat
    OBVIOUS
  <2> HIDE DEF bad
  <2> QED BY <2>1, LeastElement
<1>2. CASE k = 0
  <2> DEFINE g == [l \in 0..0 |-> 0]
  <2>1. g \in [0..k -> Nat] /\ Halves(g, C, k)
    BY <1>2 DEF Halves
  <2> QED BY <1>1, <2>1
<1>3. CASE k > 0
  <2>1. k - 1 \in Nat /\ k - 1 \notin bad
    BY <1>1, <1>3
  <2>2. PICK g \in [0..(k - 1) -> Nat] : Halves(g, C, k - 1)
    BY <2>1
  <2> DEFINE h == [l \in 0..k |-> IF l < k THEN g[l] ELSE IF k \in C THEN g[k \div 2] ELSE k]
  <2>3. k \div 2 \in 0..(k - 1)
    BY <1>3
  <2>4. h \in [0..k -> Nat]
    BY <2>2, <2>3
  <2>5. \A l \in 0..(k - 1) : h[l] = IF l \in C THEN h[l \div 2] ELSE l
    <3> TAKE l \in 0..(k - 1)
    <3>1. h[l] = g[l] /\ g[l] = IF l \in C THEN g[l \div 2] ELSE l
      BY <2>2 DEF Halves
    <3>2. l \div 2 \in 0..(k - 1)
      BY <2>1
    <3>3. h[l \div 2] = g[l \div 2]
      BY <3>2
    <3> QED BY <3>1, <3>3
  <2>6. h[k] = IF k \in C THEN h[k \div 2] ELSE k
    BY <1>3, <2>3
  <2>7. Halves(h, C, k)
    <3> HIDE DEF h
    <3>1. \A l \in 0..k : l \in 0..(k - 1) \/ l = k
      BY <1>3
    <3> QED BY <2>5, <2>6, <3>1 DEF Halves
  <2> QED BY <1>1, <2>4, <2>7
<1> QED BY <1>1, <1>2, <1>3

(* Two such functions agree where both are defined. *)
LEMMA HalvesAgree ==
    ASSUME NEW C \in SUBSET Nat, NEW n \in Nat, NEW m \in Nat, NEW f, NEW g,
           0 \notin C, Halves(f, C, n), Halves(g, C, m), NEW l \in 0..n, l \in 0..m
    PROVE  f[l] = g[l]
<1> DEFINE bad == {k \in Nat : k <= n /\ k <= m /\ f[k] # g[k]}
<1> SUFFICES ASSUME bad # {} PROVE FALSE
  OBVIOUS
<1>1. PICK k \in bad : \A j \in bad : k <= j
  <2>1. bad \in SUBSET Nat
    OBVIOUS
  <2> HIDE DEF bad
  <2> QED BY <2>1, LeastElement
<1>2. k \in 0..n /\ k \in 0..m /\ f[k] # g[k]
  BY <1>1
<1>3. k \in C /\ f[k] = f[k \div 2] /\ g[k] = g[k \div 2]
  BY <1>2 DEF Halves
<1>4. k \div 2 \in Nat /\ k \div 2 < k /\ k \div 2 \notin bad
  BY <1>1, <1>2, <1>3
<1> QED BY <1>2, <1>3, <1>4

(* So there is one for all numbers. *)
LEMMA HalvesExist ==
    ASSUME NEW C \in SUBSET Nat, 0 \notin C
    PROVE  \E f : f = [l \in Nat |-> IF l \in C THEN f[l \div 2] ELSE l]
<1> DEFINE G(n) == CHOOSE g \in [0..n -> Nat] : Halves(g, C, n)
           f == [n \in Nat |-> G(n)[n]]
<1>1. \A n \in Nat : Halves(G(n), C, n)
  BY HalvesUpTo
<1> HIDE DEF G
<1>2. ASSUME NEW l \in Nat PROVE f[l] = IF l \in C THEN f[l \div 2] ELSE l
  <2>1. l \div 2 \in Nat /\ l \div 2 <= l
    OBVIOUS
  <2>2. G(l)[l] = IF l \in C THEN G(l)[l \div 2] ELSE l
    BY <1>1 DEF Halves
  <2>3. G(l)[l \div 2] = G(l \div 2)[l \div 2]
    <3>1. l \div 2 \in 0..l /\ l \div 2 \in 0..(l \div 2)
      BY <2>1
    <3>2. Halves(G(l), C, l) /\ Halves(G(l \div 2), C, l \div 2)
      BY <1>1, <2>1
    <3> QED BY <2>1, <3>1, <3>2, HalvesAgree
  <2> QED BY <2>1, <2>2, <2>3
<1>3. f = [l \in Nat |-> IF l \in C THEN f[l \div 2] ELSE l]
  BY <1>2
<1> QED BY <1>3

(* Whether the loop of capacity goes on. *)
TooLong(floor, tokens) == {l \in Nat : l > floor /\ tokens \div l < MinConcurrency}

LEMMA TrimStep ==
    ASSUME NEW floor \in Nat, NEW tokens \in Nat, NEW len \in Nat
    PROVE  Trim(len, floor, tokens) = IF len \in TooLong(floor, tokens)
                                        THEN Trim(len \div 2, floor, tokens) ELSE len
<1> DEFINE C == TooLong(floor, tokens)
           t == CHOOSE trim : trim = [l \in Nat |->
                    IF l > floor /\ tokens \div l < MinConcurrency THEN trim[l \div 2] ELSE l]
<1>1. C \in SUBSET Nat /\ 0 \notin C
  BY DEF TooLong
<1>2. PICK f : f = [l \in Nat |-> IF l \in C THEN f[l \div 2] ELSE l]
  <2> HIDE DEF C
  <2> QED BY <1>1, HalvesExist
<1>3. f = [l \in Nat |-> IF l > floor /\ tokens \div l < MinConcurrency THEN f[l \div 2] ELSE l]
  BY <1>2 DEF TooLong
<1>4. t = [l \in Nat |-> IF l > floor /\ tokens \div l < MinConcurrency THEN t[l \div 2] ELSE l]
  BY <1>3
<1>5. \A l : Trim(l, floor, tokens) = t[l]
  BY DEF Trim
<1> HIDE DEF t
<1>6. t[len] = IF len \in C THEN t[len \div 2] ELSE len
  BY <1>4 DEF TooLong
<1> QED BY <1>5, <1>6

(* A context is trimmed to no more than it was, and to something. *)
LEMMA TrimBounds ==
    ASSUME NEW floor \in Nat \ {0}, NEW tokens \in Nat, NEW len \in Nat \ {0}
    PROVE  Trim(len, floor, tokens) \in 1..len
<1> DEFINE bad == {k \in Nat : k > 0 /\ Trim(k, floor, tokens) \notin 1..k}
<1> SUFFICES ASSUME bad # {} PROVE FALSE
  OBVIOUS
<1>1. PICK k \in bad : \A j \in bad : k <= j
  <2>1. bad \in SUBSET Nat
    OBVIOUS
  <2> HIDE DEF bad
  <2> QED BY <2>1, LeastElement
<1>2. k \in Nat /\ k > 0 /\ Trim(k, floor, tokens) \notin 1..k
  BY <1>1
<1>3. k > floor /\ Trim(k, floor, tokens) = Trim(k \div 2, floor, tokens)
  <2>1. Trim(k, floor, tokens) = IF k \in TooLong(floor, tokens)
                                   THEN Trim(k \div 2, floor, tokens) ELSE k
    BY <1>2, TrimStep
  <2> QED BY <1>2, <2>1 DEF TooLong
<1>4. k \div 2 \in Nat /\ k \div 2 > 0 /\ k \div 2 < k
  BY <1>2, <1>3
<1>5. Trim(k \div 2, floor, tokens) \in 1..(k \div 2)
  BY <1>1, <1>4
<1> QED BY <1>2, <1>3, <1>4, <1>5

(* With more room it is trimmed no further. *)
LEMMA TrimGrows ==
    ASSUME NEW floor \in Nat \ {0}, NEW less \in Nat, NEW more \in Nat, less <= more,
           NEW len \in Nat \ {0}
    PROVE  Trim(len, floor, less) <= Trim(len, floor, more)
<1> DEFINE bad == {k \in Nat : k > 0 /\ ~(Trim(k, floor, less) <= Trim(k, floor, more))}
<1> SUFFICES ASSUME bad # {} PROVE FALSE
  OBVIOUS
<1>1. PICK k \in bad : \A j \in bad : k <= j
  <2>1. bad \in SUBSET Nat
    OBVIOUS
  <2> HIDE DEF bad
  <2> QED BY <2>1, LeastElement
<1>2. k \in Nat \ {0} /\ ~(Trim(k, floor, less) <= Trim(k, floor, more))
  BY <1>1
<1>3. /\ Trim(k, floor, less) \in 1..k
      /\ Trim(k, floor, more) = IF k \in TooLong(floor, more)
                                   THEN Trim(k \div 2, floor, more) ELSE k
      /\ Trim(k, floor, less) = IF k \in TooLong(floor, less)
                                   THEN Trim(k \div 2, floor, less) ELSE k
  BY <1>2, TrimBounds, TrimStep
<1>4. k \in TooLong(floor, more)
  BY <1>2, <1>3
<1>5. less \div k <= more \div k
  BY <1>2, DivGrows
<1>6. k > floor /\ k \in TooLong(floor, less)
  BY <1>2, <1>4, <1>5 DEF TooLong, MinConcurrency
<1>7. k \div 2 \in Nat /\ k \div 2 > 0 /\ k \div 2 < k
  BY <1>2, <1>6
<1>8. Trim(k \div 2, floor, less) <= Trim(k \div 2, floor, more)
  BY <1>1, <1>7
<1> QED BY <1>2, <1>3, <1>4, <1>6, <1>8

-----------------------------------------------------------------------------
(***************************************************************************)
(* What Fetch makes of a checkpoint.                                       *)
(***************************************************************************)
Sizes(info) ==
    /\ info.positions \in Nat /\ info.layers \in Nat /\ info.kvHeads \in Nat
    /\ info.headDim \in Nat /\ info.full \in Nat /\ info.bytes \in Nat
    /\ info.params \in Nat
    /\ info.hybrid \in BOOLEAN

LEMMA LayoutType ==
    ASSUME NEW c, IsConfig(c)
    PROVE  AttentionLayout(c).full \in Nat /\ AttentionLayout(c).hybrid \in BOOLEAN
<1> DEFINE full == {i \in DOMAIN c.types : c.types[i] = "full"}
<1>1. Cardinality(full) \in Nat
  <2>1. DOMAIN c.types = 1..Len(c.types) /\ Len(c.types) \in Nat
    BY DEF IsConfig
  <2>2. IsFiniteSet(DOMAIN c.types)
    BY <2>1, FS_Interval
  <2>3. IsFiniteSet(full)
    BY <2>2, FS_Subset
  <2> QED BY <2>3, FS_CardinalityType
<1> HIDE DEF full
<1>2. c.layers \in Nat /\ c.interval \in Nat /\ c.mamba \in BOOLEAN
  BY DEF IsConfig
<1>3. c.interval > 1 => c.layers \div c.interval \in Nat
  BY <1>2, DivIs
<1>4. CASE c.types # <<>>
  <2>1. AttentionLayout(c) = [full |-> Cardinality(full), hybrid |-> full # DOMAIN c.types]
    BY <1>4 DEF AttentionLayout, full
  <2> QED BY <1>1, <2>1
<1>5. CASE c.types = <<>>
  BY <1>2, <1>3, <1>5 DEF AttentionLayout
<1> QED BY <1>4, <1>5

LEMMA LanguageConfigType ==
    ASSUME NEW c, IsCheckpoint(c)
    PROVE  IsConfig(LanguageConfig(c.raw))
BY DEF IsCheckpoint, LanguageConfig

(* All readings of a checkpoint agree on whether it names a quantization. *)
Unnamed(q) == q = None \/ q.method = None

LEMMA SchemesNamed ==
    ASSUME NEW q, NEW scheme \in Schemes(q)
    PROVE  scheme = None <=> q.method = None
<1>1. None \notin {"int8", "awq", "gptq", "compressed-tensors"}
  BY PlannerAssumption
<1>2. CASE q.method = "compressed-tensors"
  <2> DEFINE legible == {GroupScheme(g) : g \in q.groups} \ {None}
  <2>1. Schemes(q) = IF legible = {} THEN {"compressed-tensors"} ELSE legible
    BY <1>2 DEF Schemes
  <2>2. None \notin legible
    OBVIOUS
  <2> QED BY <1>1, <1>2, <2>1, <2>2
<1>3. CASE q.method # "compressed-tensors"
  <2>1. scheme = IF q.bits = 8 /\ q.method \in {"awq", "gptq"} THEN "int8" ELSE q.method
    BY <1>3 DEF Schemes
  <2>2. CASE q.method \in {"awq", "gptq"}
    BY <1>1, <2>1, <2>2
  <2>3. CASE q.method \notin {"awq", "gptq"}
    BY <2>1, <2>3
  <2> QED BY <2>2, <2>3
<1> QED BY <1>2, <1>3

LEMMA InfoOf ==
    ASSUME NEW c, IsCheckpoint(c), NEW info \in Infos(c)
    PROVE  /\ Sizes(info)
           /\ info.hybrid = Layout(c).hybrid
           /\ info.quant = None <=> Unnamed(PublishedQuant(c))
<1> DEFINE cfg == LanguageConfig(c.raw)
<1>1. IsConfig(cfg) /\ IsConfig(c.raw) /\ c.params \in Nat /\ c.shards \in Nat /\ c.local \in BOOLEAN
  BY LanguageConfigType DEF IsCheckpoint
<1>2. Layout(c).full \in Nat /\ Layout(c).hybrid \in BOOLEAN
  BY <1>1, LayoutType DEF Layout
<1>4. PICK scheme \in IF PublishedQuant(c) = None THEN {None} ELSE Schemes(PublishedQuant(c)) :
        info = [arch |-> c.raw.arch, positions |-> cfg.positions, layers |-> cfg.layers,
         kvHeads |-> IF cfg.kvHeads = 0 THEN cfg.heads ELSE cfg.kvHeads,
         headDim |-> IF cfg.headDim = 0 /\ cfg.heads > 0
                       THEN cfg.hidden \div cfg.heads ELSE cfg.headDim,
         moe |-> cfg.experts > 0, mla |-> cfg.mla,
         full |-> Layout(c).full, hybrid |-> Layout(c).hybrid,
         quant |-> scheme, bytes |-> c.shards,
         params |-> IF c.local THEN (c.shards * 100) \div Bytes(cfg.dtype) ELSE c.params,
         local |-> c.local, gguf |-> c.local /\ c.gguf # {}]
  BY Zenon DEF Infos, PublishedQuant
<1>5. scheme = None <=> Unnamed(PublishedQuant(c))
  BY SchemesNamed DEF Unnamed
<1>6. Bytes(cfg.dtype) \in {50, 100, 200, 400}
  BY DEF Bytes
<1>7. (c.shards * 100) \div Bytes(cfg.dtype) \in Nat
  BY <1>1, <1>6
<1>8. /\ cfg.positions \in Nat /\ cfg.layers \in Nat /\ cfg.kvHeads \in Nat
      /\ cfg.heads \in Nat /\ cfg.headDim \in Nat /\ cfg.hidden \in Nat
  BY <1>1 DEF IsConfig
<1>9. cfg.heads > 0 => cfg.hidden \div cfg.heads \in Nat
  BY <1>8, DivIs
<1> HIDE DEF cfg
<1>10. Sizes(info)
  BY <1>1, <1>2, <1>4, <1>7, <1>8, <1>9 DEF Sizes
<1> QED BY <1>4, <1>5, <1>10

-----------------------------------------------------------------------------
(***************************************************************************)
(* The sizes a plan is made of.                                            *)
(***************************************************************************)
LEMMA WeightType ==
    ASSUME NEW info, Sizes(info), NEW q, NEW asPublished
    PROVE  Sized(info.params, q) \in Nat /\ WeightBytes(info, q, asPublished) \in Nat
<1>1. QuantBytes(q) \in Nat
  BY DEF QuantBytes
<1>2. info.params \in Nat /\ info.bytes \in Nat
  BY DEF Sizes
<1>3. info.params * QuantBytes(q) \in Nat
  BY <1>1, <1>2
<1>4. Sized(info.params, q) \in Nat
  BY <1>3, DivIs DEF Sized
<1> QED BY <1>2, <1>4 DEF WeightBytes

LEMMA KVType ==
    ASSUME NEW info, Sizes(info)
    PROVE  KVBytesPerToken(info) \in Nat
<1> DEFINE n == IF info.full > 0 THEN info.full ELSE info.layers
<1>1. n \in Nat /\ info.kvHeads \in Nat /\ info.headDim \in Nat
  BY DEF Sizes
<1> HIDE DEF n
<1>2. 4 * n * info.kvHeads \in Nat
  BY <1>1
<1>3. 4 * n * info.kvHeads * info.headDim \in Nat
  BY <1>1, <1>2
<1>4. (4 * n * info.kvHeads * info.headDim) \div 1024 \in Nat
  BY <1>3, DivIs
<1> QED BY <1>4 DEF KVBytesPerToken, n

LEMMA ContextType ==
    ASSUME NEW info, Sizes(info), NEW want \in Nat
    PROVE  ChooseContext(info, want) \in Nat \ {0}
BY DEF Sizes, ChooseContext, Lesser

LEMMA TPType ==
    ASSUME NEW gpus \in Nat, NEW kvHeads
    PROVE  LargestValidTP(gpus, kvHeads) \in Nat \ {0}
<1> DEFINE S == {1} \cup {tp \in 1..gpus : gpus % tp = 0 /\ (kvHeads = 0 \/ kvHeads % tp = 0)}
<1>1. /\ S \in SUBSET Nat /\ S # {} /\ gpus + 1 \in Nat
      /\ \A x \in S : x <= gpus + 1
      /\ \A x \in S : x \in Nat \ {0}
  OBVIOUS
<1>2. LargestValidTP(gpus, kvHeads) = Greatest(S)
  BY DEF LargestValidTP
<1> HIDE DEF S
<1>3. Greatest(S) \in S
  BY <1>1, GreatestIs
<1> QED BY <1>1, <1>2, <1>3

LEMMA CardsTyped ==
    ASSUME NEW gpus \in Seq([card : STRING, vram : Nat \ {0}])
    PROVE  \A i \in DOMAIN gpus : gpus[i].vram \in Nat
<1> DEFINE Cards == [card : STRING, vram : Nat \ {0}]
<1>1. gpus \in Seq(Cards)
  OBVIOUS
<1>2. \A i \in DOMAIN gpus : gpus[i] \in Cards
  <2> HIDE DEF Cards
  <2> QED BY <1>1
<1> QED BY <1>2

(* The memory that counts is that of a card, and no card has less. *)
LEMMA VRAMIs ==
    ASSUME NEW gpus \in Seq([card : STRING, vram : Nat \ {0}]), gpus # <<>>
    PROVE  /\ PerGPUVRAM(gpus) \in Nat
           /\ \E i \in DOMAIN gpus : PerGPUVRAM(gpus) = gpus[i].vram
           /\ \A i \in DOMAIN gpus : PerGPUVRAM(gpus) <= gpus[i].vram
<1> DEFINE S == {gpus[i].vram : i \in DOMAIN gpus}
<1>1. \A i \in DOMAIN gpus : gpus[i].vram \in Nat
  BY CardsTyped
<1>2. 1 \in DOMAIN gpus
  OBVIOUS
<1>3. S \in SUBSET Nat /\ S # {}
  BY <1>1, <1>2
<1>4. PerGPUVRAM(gpus) = Least(S)
  BY DEF PerGPUVRAM
<1>5. Least(S) \in S /\ \A y \in S : Least(S) <= y
  <2> HIDE DEF S
  <2> QED BY <1>3, LeastIs
<1> QED BY <1>1, <1>3, <1>4, <1>5

-----------------------------------------------------------------------------
(***************************************************************************)
(* A plan for cards.                                                       *)
(***************************************************************************)
TP(info, node) == LargestValidTP(Len(node.gpus), IF info.mla THEN 0 ELSE info.kvHeads)

Format(info, node) ==
    IF info.quant = None THEN NativePrecision(NodeArch(node.gpus)) ELSE CanonicalQuant(info.quant)

Usable(info, node) == (PerGPUVRAM(node.gpus) * TP(info, node) * 90) \div 100

Weight(info, node) == WeightBytes(info, Format(info, node), info.quant # None)

CardPlan(info, node, want) ==
    Capacity(info, node, want, TP(info, node), NodeArch(node.gpus), Format(info, node),
             Usable(info, node))

(* What is left of the memory, and how much of it a token takes. *)
KVFormat(info, node) ==
    IF "fp8KVCache" \in NodeArch(node.gpus).can /\ ~info.hybrid THEN "fp8" ELSE "auto"

PerToken(info, node) ==
    KVBytesPerToken(info) \div (IF KVFormat(info, node) = "fp8" THEN 2 ELSE 1)

Room(info, node) == (Usable(info, node) - Weight(info, node)) \div PerToken(info, node)

Floor(info, want) == IF want > 0 THEN ChooseContext(info, want) ELSE ContextFloor

LEMMA UsableIs ==
    ASSUME NEW info, NEW node, IsHost(node), node.gpus # <<>>
    PROVE  /\ TP(info, node) \in Nat \ {0}
           /\ Usable(info, node) \in Nat
           /\ \A i \in DOMAIN node.gpus :
                 Usable(info, node) * 100 <= node.gpus[i].vram * TP(info, node) * 90
<1> DEFINE v == PerGPUVRAM(node.gpus)
           tp == TP(info, node)
<1>1. node.gpus \in Seq([card : STRING, vram : Nat \ {0}])
  BY DEF IsHost
<1>2. tp \in Nat \ {0}
  BY <1>1, TPType DEF TP
<1>3. /\ v \in Nat
      /\ \A i \in DOMAIN node.gpus : node.gpus[i].vram \in Nat
      /\ \A i \in DOMAIN node.gpus : v <= node.gpus[i].vram
  BY <1>1, VRAMIs, CardsTyped
<1>4. Usable(info, node) = (v * tp * 90) \div 100
  BY DEF Usable
<1> HIDE DEF v, tp
<1>5. v * tp \in Nat /\ v * tp * 90 \in Nat
  BY <1>2, <1>3
<1>6. (v * tp * 90) \div 100 \in Nat /\ ((v * tp * 90) \div 100) * 100 <= v * tp * 90
  BY <1>5
<1>7. ASSUME NEW i \in DOMAIN node.gpus
      PROVE  v * tp * 90 <= node.gpus[i].vram * tp * 90
  <2> DEFINE w == node.gpus[i].vram
  <2>1. w \in Nat /\ v <= w
    BY <1>3
  <2> HIDE DEF w
  <2>2. v * tp <= w * tp
    BY <1>2, <1>3, <2>1
  <2>3. w * tp \in Nat
    BY <1>2, <2>1
  <2>4. v * tp * 90 <= w * tp * 90
    BY <1>5, <2>2, <2>3
  <2> QED BY <2>4 DEF w
<1>8. ASSUME NEW i \in DOMAIN node.gpus
      PROVE  Usable(info, node) * 100 <= node.gpus[i].vram * tp * 90
  <2>1. node.gpus[i].vram * tp * 90 \in Nat
    BY <1>2, <1>3
  <2> QED BY <1>4, <1>5, <1>6, <1>7, <2>1
<1> QED BY <1>2, <1>4, <1>6, <1>8 DEF tp

(* A plan for cards that has no blockers is one that has capacity. *)
LEMMA CardPlanIs ==
    ASSUME NEW info, NEW node, NEW want, PlanGPU(info, node, want).blockers = {}
    PROVE  /\ ~CudaOlderThan(node.driver, node.torch)
           /\ CanRunQuant(NodeArch(node.gpus), Format(info, node))
           /\ ~(Usable(info, node) <= Weight(info, node))
           /\ PlanGPU(info, node, want) = CardPlan(info, node, want)
<1>1. \A q, f, t, w : NoPlan(q, f, t, w).blockers # {}
  BY DEF NoPlan
<1>2. \A q, t, a, u : Overflow(info, node, t, a, q, u).blockers # {}
  BY DEF Overflow, NoPlan
<1>3. PlanGPU(info, node, want) =
        IF CudaOlderThan(node.driver, node.torch)
          THEN NoPlan("", FALSE, TP(info, node), "driver")
        ELSE IF ~CanRunQuant(NodeArch(node.gpus), Format(info, node))
          THEN NoPlan(Format(info, node), info.quant # None, TP(info, node), "format")
        ELSE IF Usable(info, node) <= Weight(info, node)
          THEN Overflow(info, node, TP(info, node), NodeArch(node.gpus), Format(info, node),
                        Usable(info, node))
        ELSE CardPlan(info, node, want)
  BY Zenon DEF PlanGPU, TP, Format, Usable, Weight, CardPlan
<1> QED BY <1>1, <1>2, <1>3

(* ... and conversely. *)
LEMMA CardPlanMade ==
    ASSUME NEW info, NEW node, NEW want,
           ~CudaOlderThan(node.driver, node.torch),
           CanRunQuant(NodeArch(node.gpus), Format(info, node)),
           ~(Usable(info, node) <= Weight(info, node))
    PROVE  PlanGPU(info, node, want) = CardPlan(info, node, want)
BY Zenon DEF PlanGPU, TP, Format, Usable, Weight, CardPlan

LEMMA CardPlanParts ==
    ASSUME NEW info, NEW node, NEW want
    PROVE  LET plan == CardPlan(info, node, want) IN
           /\ plan.engine = "vllm"
           /\ plan.quant = Format(info, node)
           /\ plan.fromCkpt = (info.quant # None)
           /\ plan.kv = KVFormat(info, node)
           /\ plan.tp = TP(info, node)
           /\ plan.weight = Weight(info, node)
           /\ plan.kvPerTok = PerToken(info, node)
           /\ plan.len = IF PerToken(info, node) = 0 THEN ChooseContext(info, want)
                         ELSE Trim(ChooseContext(info, want), Floor(info, want), Room(info, node))
           /\ plan.seqs = IF PerToken(info, node) = 0 THEN 1
                          ELSE Lesser(DefaultSeqs, Greater(1, Room(info, node) \div plan.len))
           /\ plan.blockers =
                (IF node.disk > 0 /\ node.disk < DownloadBytes(info, Format(info, node))
                   THEN {"disk"} ELSE {})
                \cup (IF node.ram > 0 /\ node.ram * 3 < Weight(info, node) THEN {"ram"} ELSE {})
BY DEF CardPlan, Capacity, KVFormat, PerToken, Room, Floor, Weight

LEMMA TimesGrows ==
    ASSUME NEW a \in Nat, NEW b \in Nat, NEW c \in Nat, a <= b
    PROVE  c * a <= c * b /\ c * a \in Nat /\ c * b \in Nat
OBVIOUS

(* What fits into a room by division fits by multiplication. *)
LEMMA Packed ==
    ASSUME NEW room \in Nat, NEW per \in Nat \ {0}, NEW len \in Nat \ {0}, NEW n \in Nat,
           n <= (room \div per) \div len
    PROVE  n * len * per <= room
<1> DEFINE t == room \div per
<1>1. t \in Nat /\ per * t <= room
  BY DivIs
<1> HIDE DEF t
<1>2. n <= t \div len
  BY DEF t
<1>3. t \div len \in Nat /\ len * (t \div len) <= t
  BY <1>1, DivIs
<1>4. len * n <= t /\ len * n \in Nat
  <2>1. len * n <= len * (t \div len) /\ len * n \in Nat /\ len * (t \div len) \in Nat
    BY <1>2, <1>3, TimesGrows
  <2> QED BY <1>1, <1>3, <2>1
<1>5. per * (len * n) <= room
  <2>1. per * (len * n) <= per * t /\ per * (len * n) \in Nat /\ per * t \in Nat
    BY <1>1, <1>4, TimesGrows
  <2> QED BY <1>1, <2>1
<1>6. n * len * per = per * (len * n)
  OBVIOUS
<1> QED BY <1>5, <1>6

LEMMA PerTokenType ==
    ASSUME NEW info, Sizes(info), NEW node
    PROVE  PerToken(info, node) \in Nat
<1>1. KVBytesPerToken(info) \in Nat
  BY KVType
<1> QED BY <1>1 DEF PerToken

LEMMA RoomType ==
    ASSUME NEW info, Sizes(info), NEW node, IsHost(node), node.gpus # <<>>,
           ~(Usable(info, node) <= Weight(info, node)), PerToken(info, node) # 0
    PROVE  /\ Usable(info, node) - Weight(info, node) \in Nat
           /\ Room(info, node) \in Nat
<1>1. Usable(info, node) \in Nat /\ Weight(info, node) \in Nat /\ PerToken(info, node) \in Nat \ {0}
  BY UsableIs, WeightType, PerTokenType DEF Weight
<1>2. Usable(info, node) - Weight(info, node) \in Nat
  BY <1>1
<1> QED BY <1>1, <1>2, DivIs DEF Room

LEMMA FloorType ==
    ASSUME NEW info, Sizes(info), NEW want \in Nat
    PROVE  Floor(info, want) \in Nat \ {0}
BY ContextType DEF Floor, ContextFloor

LEMMA CardPlanLen ==
    ASSUME NEW info, Sizes(info), NEW node, IsHost(node), node.gpus # <<>>, NEW want \in Nat,
           ~(Usable(info, node) <= Weight(info, node))
    PROVE  CardPlan(info, node, want).len \in Nat \ {0}
<1> DEFINE plan == CardPlan(info, node, want)
           chosen == ChooseContext(info, want)
<1>1. plan.len = IF PerToken(info, node) = 0 THEN chosen
                 ELSE Trim(chosen, Floor(info, want), Room(info, node))
  BY CardPlanParts
<1>2. chosen \in Nat \ {0} /\ Floor(info, want) \in Nat \ {0}
  BY ContextType, FloorType
<1> HIDE DEF plan, chosen
<1>3. CASE PerToken(info, node) = 0
  BY <1>1, <1>2, <1>3 DEF plan
<1>4. CASE PerToken(info, node) # 0
  <2>1. Room(info, node) \in Nat
    BY <1>4, RoomType
  <2>2. Trim(chosen, Floor(info, want), Room(info, node)) \in 1..chosen
    BY <1>2, <2>1, TrimBounds
  <2> QED BY <1>1, <1>2, <1>4, <2>2 DEF plan
<1> QED BY <1>3, <1>4

(* The weights and the windows of all requests fit what the cards leave. *)
LEMMA CardPlanFits ==
    ASSUME NEW info, Sizes(info), NEW node, IsHost(node), node.gpus # <<>>, NEW want \in Nat,
           ~(Usable(info, node) <= Weight(info, node)),
           CardPlan(info, node, want).seqs > 1
    PROVE  LET plan == CardPlan(info, node, want)
               need == plan.weight + plan.seqs * plan.len * plan.kvPerTok
           IN  need \in Nat /\ need <= Usable(info, node)
<1> DEFINE plan == CardPlan(info, node, want)
           per == PerToken(info, node)
           room == Usable(info, node) - Weight(info, node)
<1>1. /\ plan.seqs = IF per = 0 THEN 1
                     ELSE Lesser(DefaultSeqs, Greater(1, Room(info, node) \div plan.len))
      /\ plan.weight = Weight(info, node)
      /\ plan.kvPerTok = per
  BY CardPlanParts
<1>2. plan.len \in Nat \ {0} /\ plan.seqs > 1
  BY CardPlanLen
<1>3. per \in Nat
  BY PerTokenType
<1>4. Usable(info, node) \in Nat /\ Weight(info, node) \in Nat
  BY UsableIs, WeightType DEF Weight
<1> HIDE DEF plan
<1>5. per # 0
  BY <1>1, <1>2
<1>6. room \in Nat /\ Room(info, node) \in Nat /\ Room(info, node) = room \div per
  BY <1>5, RoomType DEF Room
<1> HIDE DEF per, room
<1>7. Room(info, node) \div plan.len \in Nat
  BY <1>2, <1>6, DivIs
<1>8. plan.seqs \in Nat /\ plan.seqs <= (room \div per) \div plan.len
  BY <1>1, <1>2, <1>5, <1>6, <1>7 DEF Lesser, Greater, DefaultSeqs
<1>9. plan.seqs * plan.len * per <= room
  BY <1>2, <1>3, <1>5, <1>6, <1>8, Packed
<1>10. plan.seqs * plan.len * per \in Nat
  BY <1>2, <1>3, <1>8
<1>11. Weight(info, node) + plan.seqs * plan.len * per <= Usable(info, node)
  BY <1>4, <1>6, <1>9, <1>10 DEF room
<1> QED BY <1>1, <1>4, <1>10, <1>11 DEF plan

-----------------------------------------------------------------------------
(***************************************************************************)
(* A plan for a host without cards.                                        *)
(***************************************************************************)
Budget(info, node) == node.ram - CPUHeadroom - Sized(info.params, "q4_k_m")

LEMMA HostPlanParts ==
    ASSUME NEW info, NEW node, NEW want
    PROVE  LET plan == PlanCPU(info, node, want) IN
           /\ plan.engine = "llamacpp"
           /\ plan.weight = Sized(info.params, "q4_k_m")
           /\ plan.kvPerTok = KVBytesPerToken(info)
           /\ plan.len = Lesser(CPUContext, ChooseContext(info, want))
           /\ plan.seqs = IF Budget(info, node) <= 0 \/ KVBytesPerToken(info) = 0 THEN 4
                          ELSE Lesser(4, Greater(1, (Budget(info, node) \div KVBytesPerToken(info))
                                                       \div plan.len))
           /\ plan.blockers = IF Budget(info, node) <= 0 THEN {"weights"}
                              ELSE IF node.disk > 0 /\ node.disk < DownloadBytes(info, "q4_k_m")
                                     THEN {"disk"} ELSE {}
BY DEF PlanCPU, Budget

LEMMA HostPlanTypes ==
    ASSUME NEW info, Sizes(info), NEW node, IsHost(node), NEW want \in Nat
    PROVE  /\ PlanCPU(info, node, want).len \in Nat \ {0}
           /\ KVBytesPerToken(info) \in Nat
           /\ Sized(info.params, "q4_k_m") \in Nat
           /\ node.ram \in Nat
           /\ Budget(info, node) \in Int
<1>1. PlanCPU(info, node, want).len = Lesser(CPUContext, ChooseContext(info, want))
  BY HostPlanParts
<1>2. ChooseContext(info, want) \in Nat \ {0}
  BY ContextType
<1>3. KVBytesPerToken(info) \in Nat /\ Sized(info.params, "q4_k_m") \in Nat /\ node.ram \in Nat
  BY KVType, WeightType DEF IsHost
<1> QED BY <1>1, <1>2, <1>3 DEF Lesser, CPUContext, Budget, CPUHeadroom

LEMMA HostPlanFits ==
    ASSUME NEW info, Sizes(info), NEW node, IsHost(node), NEW want \in Nat,
           PlanCPU(info, node, want).blockers = {}, PlanCPU(info, node, want).seqs > 1
    PROVE  LET plan == PlanCPU(info, node, want) IN
           plan.weight + plan.seqs * plan.len * plan.kvPerTok + CPUHeadroom <= node.ram
<1> DEFINE plan == PlanCPU(info, node, want)
           per == KVBytesPerToken(info)
           budget == Budget(info, node)
<1>1. /\ plan.weight = Sized(info.params, "q4_k_m")
      /\ plan.kvPerTok = per
      /\ plan.seqs = IF budget <= 0 \/ per = 0 THEN 4
                     ELSE Lesser(4, Greater(1, (budget \div per) \div plan.len))
      /\ plan.blockers = IF budget <= 0 THEN {"weights"}
                         ELSE IF node.disk > 0 /\ node.disk < DownloadBytes(info, "q4_k_m")
                                THEN {"disk"} ELSE {}
  BY HostPlanParts
<1>2. /\ plan.len \in Nat \ {0} /\ per \in Nat /\ plan.weight \in Nat /\ node.ram \in Nat
      /\ budget \in Int /\ budget = node.ram - CPUHeadroom - plan.weight
  BY <1>1, HostPlanTypes DEF Budget
<1>3. plan.blockers = {} /\ plan.seqs > 1
  OBVIOUS
<1> HIDE DEF plan, per, budget
<1>4. budget > 0
  BY <1>1, <1>2, <1>3
<1>5. plan.seqs \in Nat /\ plan.seqs * plan.len * per <= budget
  <2>1. CASE per = 0
    <3>1. plan.seqs = 4
      BY <1>1, <2>1
    <3>2. plan.seqs * plan.len * per = 0
      BY <1>2, <2>1, <3>1
    <3> QED BY <1>2, <1>4, <3>1, <3>2
  <2>2. CASE per # 0
    <3>1. budget \in Nat
      BY <1>2, <1>4
    <3>2. budget \div per \in Nat
      BY <1>2, <2>2, <3>1, DivIs
    <3>3. (budget \div per) \div plan.len \in Nat
      BY <1>2, <3>2, DivIs
    <3>4. plan.seqs = Lesser(4, Greater(1, (budget \div per) \div plan.len))
      BY <1>1, <1>2, <1>4, <2>2
    <3>5. plan.seqs \in Nat /\ plan.seqs <= (budget \div per) \div plan.len
      BY <1>3, <3>3, <3>4 DEF Lesser, Greater
    <3> QED BY <1>2, <2>2, <3>1, <3>5, Packed
  <2> QED BY <2>1, <2>2
<1>6. plan.seqs * plan.len * per \in Nat
  BY <1>2, <1>5
<1>7. plan.weight + plan.seqs * plan.len * per + CPUHeadroom <= node.ram
  BY <1>2, <1>5, <1>6 DEF CPUHeadroom
<1> QED BY <1>1, <1>7 DEF plan

-----------------------------------------------------------------------------
(***************************************************************************)
(* More memory.                                                            *)
(***************************************************************************)
LEMMA RoomierParts ==
    ASSUME NEW new, NEW old, Roomier(new, old)
    PROVE  /\ new.driver = old.driver /\ new.torch = old.torch
           /\ new.engines = old.engines /\ new.archs = old.archs
BY DEF Roomier

LEMMA RoomierCards ==
    ASSUME NEW info, NEW new, NEW old, IsHost(new), IsHost(old), old.gpus # <<>>,
           Roomier(new, old)
    PROVE  /\ new.gpus # <<>>
           /\ TP(info, new) = TP(info, old)
           /\ NodeArch(new.gpus) = NodeArch(old.gpus)
           /\ Usable(info, old) <= Usable(info, new)
<1> DEFINE Cards == Seq([card : STRING, vram : Nat \ {0}])
<1>1. new.gpus \in Cards /\ old.gpus \in Cards /\ Len(new.gpus) = Len(old.gpus)
  BY DEF IsHost, Roomier
<1>2. new.gpus # <<>> /\ DOMAIN new.gpus = DOMAIN old.gpus /\ 1 \in DOMAIN old.gpus
  BY <1>1
<1>3. \A i \in DOMAIN old.gpus :
        new.gpus[i].card = old.gpus[i].card /\ new.gpus[i].vram >= old.gpus[i].vram
  BY <1>2 DEF Roomier
<1>4. TP(info, new) = TP(info, old)
  BY <1>1 DEF TP
<1>5. NodeArch(new.gpus) = NodeArch(old.gpus)
  <2>1. \A i \in DOMAIN old.gpus : ArchOf(new.gpus[i].card) = ArchOf(old.gpus[i].card)
    BY <1>3
  <2>2. {c \in ArchOf(new.gpus[1].card).can :
           \A i \in DOMAIN new.gpus : c \in ArchOf(new.gpus[i].card).can}
        = {c \in ArchOf(old.gpus[1].card).can :
             \A i \in DOMAIN old.gpus : c \in ArchOf(old.gpus[i].card).can}
    BY <1>2, <2>1
  <2>3. (\E i \in DOMAIN new.gpus : ArchOf(new.gpus[i].card).crippled)
        = (\E i \in DOMAIN old.gpus : ArchOf(old.gpus[i].card).crippled)
    BY <1>2, <2>1
  <2> QED BY <2>2, <2>3 DEF NodeArch
<1> DEFINE v == PerGPUVRAM(old.gpus)
           w == PerGPUVRAM(new.gpus)
           tp == TP(info, old)
<1>6. v \in Nat /\ w \in Nat /\ v <= w
  <2>1. PICK i \in DOMAIN old.gpus : w = new.gpus[i].vram /\ w \in Nat
    BY <1>1, <1>2, VRAMIs
  <2>2. v \in Nat /\ v <= old.gpus[i].vram /\ old.gpus[i].vram \in Nat
    BY <1>1, VRAMIs, CardsTyped
  <2> QED BY <1>3, <2>1, <2>2
<1>7. tp \in Nat \ {0}
  BY UsableIs
<1>8. Usable(info, old) = (v * tp * 90) \div 100 /\ Usable(info, new) = (w * tp * 90) \div 100
  BY <1>4 DEF Usable
<1> HIDE DEF v, w, tp
<1>9. v * tp * 90 <= w * tp * 90 /\ v * tp * 90 \in Nat /\ w * tp * 90 \in Nat
  <2>1. v * tp <= w * tp /\ v * tp \in Nat /\ w * tp \in Nat
    BY <1>6, <1>7
  <2> QED BY <2>1
<1>10. (v * tp * 90) \div 100 <= (w * tp * 90) \div 100
  BY <1>9, DivGrows
<1> QED BY <1>2, <1>4, <1>5, <1>8, <1>10

(* The blockers that ask for memory or disk go, if they change at all. *)
LEMMA RoomierDisk ==
    ASSUME NEW new, NEW old, IsHost(new), IsHost(old), Roomier(new, old)
    PROVE  /\ new.disk \in Nat /\ old.disk \in Nat /\ new.ram \in Nat /\ old.ram \in Nat
           /\ new.disk >= old.disk /\ (old.disk = 0 => new.disk = 0)
           /\ new.ram >= old.ram /\ (old.ram = 0 => new.ram = 0)
BY DEF IsHost, Roomier

LEMMA DiskStillFits ==
    ASSUME NEW new, NEW old, IsHost(new), IsHost(old), Roomier(new, old), NEW n \in Nat,
           ~(old.disk > 0 /\ old.disk < n)
    PROVE  ~(new.disk > 0 /\ new.disk < n)
BY RoomierDisk

LEMMA DownloadType ==
    ASSUME NEW info, Sizes(info), NEW q
    PROVE  DownloadBytes(info, q) \in Nat
BY WeightType DEF DownloadBytes, DownloadOverhead

LEMMA SeqsGrow ==
    ASSUME NEW most \in Nat, NEW a \in Nat, NEW b \in Nat, a <= b
    PROVE  Lesser(most, Greater(1, a)) <= Lesser(most, Greater(1, b))
BY DEF Lesser, Greater

(* No worse a plan. *)
NoWorse(new, old) ==
    /\ Fits(new)
    /\ new.len >= old.len
    /\ new.len = old.len => new.seqs >= old.seqs

LEMMA CardPlanGrows ==
    ASSUME NEW info, Sizes(info), NEW new, NEW old, IsHost(new), IsHost(old),
           old.gpus # <<>>, Roomier(new, old), NEW want \in Nat,
           PlanGPU(info, old, want).blockers = {}
    PROVE  NoWorse(PlanGPU(info, new, want), PlanGPU(info, old, want))
<1> DEFINE p == CardPlan(info, old, want)
           q == CardPlan(info, new, want)
           chosen == ChooseContext(info, want)
           floor == Floor(info, want)
           per == PerToken(info, old)
<1>1. /\ new.gpus # <<>>
      /\ TP(info, new) = TP(info, old)
      /\ NodeArch(new.gpus) = NodeArch(old.gpus)
      /\ Usable(info, old) <= Usable(info, new)
  BY RoomierCards
<1>2. /\ ~CudaOlderThan(old.driver, old.torch)
      /\ CanRunQuant(NodeArch(old.gpus), Format(info, old))
      /\ ~(Usable(info, old) <= Weight(info, old))
      /\ PlanGPU(info, old, want) = p
  BY CardPlanIs
<1>3. Format(info, new) = Format(info, old)
  BY <1>1 DEF Format
<1>4. Weight(info, new) = Weight(info, old) /\ PerToken(info, new) = per
  BY <1>1, <1>3 DEF Weight, PerToken, KVFormat
<1>5. Usable(info, old) \in Nat /\ Usable(info, new) \in Nat /\ Weight(info, old) \in Nat
  BY <1>1, UsableIs, WeightType DEF Weight
<1>6. ~(Usable(info, new) <= Weight(info, new))
  BY <1>1, <1>2, <1>4, <1>5
<1>7. PlanGPU(info, new, want) = q
  <2>1. ~CudaOlderThan(new.driver, new.torch)
    BY <1>2, RoomierParts
  <2>2. CanRunQuant(NodeArch(new.gpus), Format(info, new))
    BY <1>1, <1>2, <1>3
  <2> QED BY <1>6, <2>1, <2>2, CardPlanMade
<1>8. /\ p.len = IF per = 0 THEN chosen ELSE Trim(chosen, floor, Room(info, old))
      /\ q.len = IF per = 0 THEN chosen ELSE Trim(chosen, floor, Room(info, new))
      /\ p.seqs = IF per = 0 THEN 1
                  ELSE Lesser(DefaultSeqs, Greater(1, Room(info, old) \div p.len))
      /\ q.seqs = IF per = 0 THEN 1
                  ELSE Lesser(DefaultSeqs, Greater(1, Room(info, new) \div q.len))
  BY <1>4, CardPlanParts
<1>9. /\ p.blockers = {}
      /\ p.blockers =
           (IF old.disk > 0 /\ old.disk < DownloadBytes(info, Format(info, old))
              THEN {"disk"} ELSE {})
           \cup (IF old.ram > 0 /\ old.ram * 3 < Weight(info, old) THEN {"ram"} ELSE {})
      /\ q.blockers =
           (IF new.disk > 0 /\ new.disk < DownloadBytes(info, Format(info, old))
              THEN {"disk"} ELSE {})
           \cup (IF new.ram > 0 /\ new.ram * 3 < Weight(info, old) THEN {"ram"} ELSE {})
  BY <1>2, <1>3, <1>4, CardPlanParts
<1>10. chosen \in Nat \ {0} /\ floor \in Nat \ {0} /\ per \in Nat
  BY ContextType, FloorType, PerTokenType
<1>11. p.len \in Nat \ {0} /\ q.len \in Nat \ {0}
  BY <1>1, <1>2, <1>6, CardPlanLen
<1> HIDE DEF p, q, chosen, floor, per
<1>12. q.blockers = {}
  <2>1. ~(old.disk > 0 /\ old.disk < DownloadBytes(info, Format(info, old)))
    BY <1>9
  <2>2. ~(new.disk > 0 /\ new.disk < DownloadBytes(info, Format(info, old)))
    BY <2>1, DownloadType, DiskStillFits
  <2>3. ~(old.ram > 0 /\ old.ram * 3 < Weight(info, old))
    BY <1>9
  <2>4. ~(new.ram > 0 /\ new.ram * 3 < Weight(info, old))
    BY <1>5, <2>3, RoomierDisk
  <2> QED BY <1>9, <2>2, <2>4
<1>13. per # 0 => /\ Room(info, old) \in Nat /\ Room(info, new) \in Nat
                  /\ Room(info, old) <= Room(info, new)
  <2> SUFFICES ASSUME per # 0
               PROVE  /\ Room(info, old) \in Nat /\ Room(info, new) \in Nat
                      /\ Room(info, old) <= Room(info, new)
    OBVIOUS
  <2>1. /\ Usable(info, old) - Weight(info, old) \in Nat /\ Room(info, old) \in Nat
        /\ Usable(info, new) - Weight(info, new) \in Nat /\ Room(info, new) \in Nat
    BY <1>1, <1>2, <1>4, <1>6, RoomType DEF per
  <2>2. Usable(info, old) - Weight(info, old) <= Usable(info, new) - Weight(info, new)
    BY <1>1, <1>4, <1>5
  <2>3. Room(info, old) = (Usable(info, old) - Weight(info, old)) \div per
        /\ Room(info, new) = (Usable(info, new) - Weight(info, new)) \div per
    BY <1>4 DEF Room, per
  <2> QED BY <1>10, <2>1, <2>2, <2>3, DivGrows
<1>14. q.len >= p.len
  <2>1. CASE per = 0
    BY <1>8, <1>10, <2>1
  <2>2. CASE per # 0
    <3>1. Trim(chosen, floor, Room(info, old)) <= Trim(chosen, floor, Room(info, new))
      BY <1>10, <1>13, <2>2, TrimGrows
    <3> QED BY <1>8, <1>11, <2>2, <3>1
  <2> QED BY <2>1, <2>2
<1>15. q.len = p.len => q.seqs >= p.seqs
  <2>1. CASE per = 0
    BY <1>8, <2>1
  <2>2. CASE per # 0 /\ q.len = p.len
    <3>1. /\ Room(info, old) \div p.len \in Nat /\ Room(info, new) \div p.len \in Nat
          /\ Room(info, old) \div p.len <= Room(info, new) \div p.len
      BY <1>11, <1>13, <2>2, DivIs, DivGrows
    <3>2. DefaultSeqs \in Nat
      BY DEF DefaultSeqs
    <3>3. Lesser(DefaultSeqs, Greater(1, Room(info, old) \div p.len))
            <= Lesser(DefaultSeqs, Greater(1, Room(info, new) \div p.len))
      BY <3>1, <3>2, SeqsGrow
    <3>4. /\ p.seqs = Lesser(DefaultSeqs, Greater(1, Room(info, old) \div p.len))
          /\ q.seqs = Lesser(DefaultSeqs, Greater(1, Room(info, new) \div p.len))
      BY <1>8, <2>2
    <3>5. p.seqs \in Nat /\ q.seqs \in Nat
      BY <3>1, <3>2, <3>4 DEF Lesser, Greater
    <3> QED BY <3>3, <3>4, <3>5
  <2> QED BY <2>1, <2>2
<1> QED BY <1>2, <1>7, <1>12, <1>14, <1>15 DEF NoWorse, Fits

LEMMA HostPlanGrows ==
    ASSUME NEW info, Sizes(info), NEW new, NEW old, IsHost(new), IsHost(old),
           Roomier(new, old), NEW want \in Nat, PlanCPU(info, old, want).blockers = {}
    PROVE  NoWorse(PlanCPU(info, new, want), PlanCPU(info, old, want))
<1> DEFINE p == PlanCPU(info, old, want)
           q == PlanCPU(info, new, want)
           per == KVBytesPerToken(info)
           b == Budget(info, old)
           c == Budget(info, new)
           n == DownloadBytes(info, "q4_k_m")
<1>1. /\ p.len = q.len
      /\ p.seqs = IF b <= 0 \/ per = 0 THEN 4 ELSE Lesser(4, Greater(1, (b \div per) \div p.len))
      /\ q.seqs = IF c <= 0 \/ per = 0 THEN 4 ELSE Lesser(4, Greater(1, (c \div per) \div q.len))
      /\ p.blockers = IF b <= 0 THEN {"weights"}
                      ELSE IF old.disk > 0 /\ old.disk < n THEN {"disk"} ELSE {}
      /\ q.blockers = IF c <= 0 THEN {"weights"}
                      ELSE IF new.disk > 0 /\ new.disk < n THEN {"disk"} ELSE {}
  BY HostPlanParts
<1>2. p.len \in Nat \ {0} /\ per \in Nat /\ b \in Int /\ c \in Int /\ n \in Nat
  BY HostPlanTypes, DownloadType
<1>3. b <= c
  <2>1. old.ram \in Nat /\ new.ram \in Nat /\ new.ram >= old.ram
    BY RoomierDisk
  <2>2. Sized(info.params, "q4_k_m") \in Nat
    BY WeightType
  <2> QED BY <2>1, <2>2 DEF Budget, CPUHeadroom
<1>4. p.blockers = {}
  OBVIOUS
<1> HIDE DEF p, q, per, b, c, n
<1>5. ~(b <= 0) /\ ~(old.disk > 0 /\ old.disk < n)
  BY <1>1, <1>4
<1>6. ~(c <= 0) /\ ~(new.disk > 0 /\ new.disk < n)
  <2>1. ~(new.disk > 0 /\ new.disk < n)
    BY <1>2, <1>5, DiskStillFits
  <2> QED BY <1>2, <1>3, <1>5, <2>1
<1>7. q.blockers = {}
  BY <1>1, <1>6
<1>8. q.seqs >= p.seqs
  <2>1. CASE per = 0
    BY <1>1, <2>1
  <2>2. CASE per # 0
    <3>1. b \in Nat /\ c \in Nat
      BY <1>2, <1>5, <1>6
    <3>2. b \div per \in Nat /\ c \div per \in Nat /\ b \div per <= c \div per
      BY <1>2, <1>3, <2>2, <3>1, DivIs, DivGrows
    <3>3. /\ (b \div per) \div p.len \in Nat /\ (c \div per) \div p.len \in Nat
          /\ (b \div per) \div p.len <= (c \div per) \div p.len
      BY <1>2, <3>2, DivIs, DivGrows
    <3>4. Lesser(4, Greater(1, (b \div per) \div p.len))
            <= Lesser(4, Greater(1, (c \div per) \div p.len))
      BY <3>3, SeqsGrow
    <3>5. /\ p.seqs = Lesser(4, Greater(1, (b \div per) \div p.len))
          /\ q.seqs = Lesser(4, Greater(1, (c \div per) \div p.len))
      BY <1>1, <1>5, <1>6, <2>2
    <3>6. p.seqs \in Nat /\ q.seqs \in Nat
      BY <3>3, <3>5 DEF Lesser, Greater
    <3> QED BY <3>4, <3>5, <3>6
  <2> QED BY <2>1, <2>2
<1> QED BY <1>1, <1>2, <1>7, <1>8 DEF NoWorse, Fits, p, q

-----------------------------------------------------------------------------
(***************************************************************************)
(* The plan on the page: what the node adds are blockers only.             *)
(***************************************************************************)
Fields == {"engine", "quant", "fromCkpt", "kv", "tp", "len", "seqs", "weight", "kvPerTok",
           "disk", "smaller", "stream", "blockers"}

LEMMA PlanDomain ==
    ASSUME NEW info, NEW node, NEW want
    PROVE  /\ DOMAIN PlanFor(info, node, want) = Fields
           /\ node.gpus # <<>> => PlanFor(info, node, want).engine = "vllm"
           /\ node.gpus = <<>> => PlanFor(info, node, want).engine = "llamacpp"
<1>1. \A q, f, t, w : DOMAIN NoPlan(q, f, t, w) = Fields /\ NoPlan(q, f, t, w).engine = "vllm"
  BY DEF NoPlan, Fields
<1>2. \A t, a, q, u : /\ DOMAIN Overflow(info, node, t, a, q, u) = Fields
                      /\ Overflow(info, node, t, a, q, u).engine = "vllm"
  BY DEF Overflow, NoPlan, Fields
<1>3. /\ DOMAIN CardPlan(info, node, want) = Fields
      /\ CardPlan(info, node, want).engine = "vllm"
  BY DEF CardPlan, Capacity, Fields
<1>4. /\ DOMAIN PlanCPU(info, node, want) = Fields
      /\ PlanCPU(info, node, want).engine = "llamacpp"
  BY DEF PlanCPU, Fields
<1>5. PlanGPU(info, node, want) =
        IF CudaOlderThan(node.driver, node.torch)
          THEN NoPlan("", FALSE, TP(info, node), "driver")
        ELSE IF ~CanRunQuant(NodeArch(node.gpus), Format(info, node))
          THEN NoPlan(Format(info, node), info.quant # None, TP(info, node), "format")
        ELSE IF Usable(info, node) <= Weight(info, node)
          THEN Overflow(info, node, TP(info, node), NodeArch(node.gpus), Format(info, node),
                        Usable(info, node))
        ELSE CardPlan(info, node, want)
  BY Zenon DEF PlanGPU, TP, Format, Usable, Weight, CardPlan
<1>6. /\ DOMAIN PlanGPU(info, node, want) = Fields
      /\ PlanGPU(info, node, want).engine = "vllm"
  BY <1>1, <1>2, <1>3, <1>5
<1> QED BY <1>4, <1>6 DEF PlanFor

(* The blockers of adminInspect, which look at the node's software only. *)
Unserved(info, node, engine) ==
    (IF engine \notin node.engines THEN {"engine"} ELSE {})
    \cup (IF engine = "vllm" /\ node.archs # {} /\ info.arch # None
                /\ info.arch \notin node.archs THEN {"architecture"} ELSE {})

LEMMA InspectedParts ==
    ASSUME NEW info, NEW node, NEW want
    PROVE  LET plan == PlanFor(info, node, want)
               seen == Inspected(info, node, want)
           IN  /\ seen.engine = plan.engine /\ seen.quant = plan.quant
               /\ seen.fromCkpt = plan.fromCkpt /\ seen.kv = plan.kv /\ seen.tp = plan.tp
               /\ seen.len = plan.len /\ seen.seqs = plan.seqs
               /\ seen.weight = plan.weight /\ seen.kvPerTok = plan.kvPerTok
               /\ seen.blockers = plan.blockers \cup Unserved(info, node, plan.engine)
<1> DEFINE plan == PlanFor(info, node, want)
           more == Unserved(info, node, plan.engine)
<1>1. DOMAIN plan = Fields
  BY PlanDomain
<1>2. Inspected(info, node, want) =
        [plan EXCEPT !.blockers = @
           \cup (IF plan.engine \notin node.engines THEN {"engine"} ELSE {})
           \cup (IF plan.engine = "vllm" /\ node.archs # {} /\ info.arch # None
                         /\ info.arch \notin node.archs THEN {"architecture"} ELSE {})]
  BY DEF Inspected
<1>3. more = (IF plan.engine \notin node.engines THEN {"engine"} ELSE {})
             \cup (IF plan.engine = "vllm" /\ node.archs # {} /\ info.arch # None
                           /\ info.arch \notin node.archs THEN {"architecture"} ELSE {})
  BY DEF Unserved
<1> HIDE DEF plan, more
<1>4. Inspected(info, node, want) = [plan EXCEPT !.blockers = plan.blockers \cup more]
  BY <1>2, <1>3
<1> QED BY <1>1, <1>4 DEF Fields, plan, more

(* A plan that fits on the page is one of the two kinds of plan, without blockers. *)
LEMMA InspectedFits ==
    ASSUME NEW info, NEW node, NEW want, Fits(Inspected(info, node, want))
    PROVE  /\ PlanFor(info, node, want).blockers = {}
           /\ node.gpus # <<>> => /\ PlanGPU(info, node, want).blockers = {}
                                  /\ PlanFor(info, node, want) = CardPlan(info, node, want)
           /\ node.gpus = <<>> => PlanFor(info, node, want) = PlanCPU(info, node, want)
           /\ Unserved(info, node, PlanFor(info, node, want).engine) = {}
<1>1. /\ PlanFor(info, node, want).blockers = {}
      /\ Unserved(info, node, PlanFor(info, node, want).engine) = {}
  BY InspectedParts DEF Fits
<1>2. CASE node.gpus # <<>>
  <2>1. PlanFor(info, node, want) = PlanGPU(info, node, want)
    BY <1>2 DEF PlanFor
  <2> QED BY <1>1, <1>2, <2>1, CardPlanIs
<1>3. CASE node.gpus = <<>>
  BY <1>1, <1>3 DEF PlanFor
<1> QED BY <1>2, <1>3

-----------------------------------------------------------------------------
(***************************************************************************)
(* The invariant: the page is the inspection of a state there was, and the *)
(* command is acceptable.                                                  *)
(***************************************************************************)
Shown ==
    page # None =>
        /\ page.info \in Infos(ck) /\ page.host \in Hosts /\ page.want \in Contexts
        /\ page.plan = Inspected(page.info, page.host, page.want)
        /\ page.gguf => ck.gguf # {}

IInv ==
    /\ ck \in Checkpoints /\ host \in Hosts
    /\ Shown
    /\ FlagsFollowCheckpoint

(* What PickQuant picks of a listing is on it. *)
LEMMA PickedListed ==
    ASSUME NEW quants, quants # {}, NEW want, NEW q \in PickQuant(quants, want)
    PROVE  q \in quants
<1> DEFINE known == {i \in DOMAIN GGUFOrder : GGUFOrder[i] \in quants}
<1>1. CASE want \in quants
  BY <1>1 DEF PickQuant
<1>2. CASE want \notin quants /\ known = {}
  <2>1. PickQuant(quants, want) = quants
    BY <1>2 DEF PickQuant
  <2> QED BY <2>1
<1>3. CASE want \notin quants /\ known # {}
  <2>1. PickQuant(quants, want) = {GGUFOrder[Least(known)]}
    BY <1>3 DEF PickQuant
  <2>2. known \in SUBSET Nat
    BY DEF GGUFOrder
  <2>3. Least(known) \in known
    <3> HIDE DEF known
    <3> QED BY <1>3, <2>2, LeastIs
  <2> QED BY <2>1, <2>3
<1> QED BY <1>1, <1>2, <1>3

(* The precisions of an unquantized checkpoint. *)
LEMMA NativeNames ==
    ASSUME NEW a
    PROVE  NativePrecision(a) \in {"fp32", "bf16", "fp16"}
BY DEF NativePrecision

(* What the page says of a plan for vLLM that fits. *)
LEMMA PageForCards ==
    ASSUME IInv, page # None, Fits(page.plan), page.plan.engine = "vllm"
    PROVE  /\ page.host.gpus # <<>>
           /\ ~(Usable(page.info, page.host) <= Weight(page.info, page.host))
           /\ CanRunQuant(NodeArch(page.host.gpus), page.plan.quant)
           /\ page.plan.quant = Format(page.info, page.host)
           /\ page.plan.fromCkpt = (page.info.quant # None)
           /\ page.plan.kv = KVFormat(page.info, page.host)
           /\ page.plan.tp = TP(page.info, page.host)
<1> DEFINE info == page.info
           node == page.host
           want == page.want
<1>1. page.plan = Inspected(info, node, want)
  BY DEF IInv, Shown
<1>2. PlanFor(info, node, want).engine = "vllm"
  BY <1>1, InspectedParts
<1>3. node.gpus # <<>>
  BY <1>2, PlanDomain
<1>4. Fits(Inspected(info, node, want))
  BY <1>1
<1>5. /\ PlanGPU(info, node, want).blockers = {}
      /\ PlanFor(info, node, want) = CardPlan(info, node, want)
  BY <1>3, <1>4, InspectedFits
<1>6. /\ CanRunQuant(NodeArch(node.gpus), Format(info, node))
      /\ ~(Usable(info, node) <= Weight(info, node))
  BY <1>5, CardPlanIs
<1>7. /\ CardPlan(info, node, want).quant = Format(info, node)
      /\ CardPlan(info, node, want).fromCkpt = (info.quant # None)
      /\ CardPlan(info, node, want).kv = KVFormat(info, node)
      /\ CardPlan(info, node, want).tp = TP(info, node)
  BY CardPlanParts
<1>8. /\ page.plan.quant = CardPlan(info, node, want).quant
      /\ page.plan.fromCkpt = CardPlan(info, node, want).fromCkpt
      /\ page.plan.kv = CardPlan(info, node, want).kv
      /\ page.plan.tp = CardPlan(info, node, want).tp
  BY <1>1, <1>5, InspectedParts
<1> QED BY <1>3, <1>6, <1>7, <1>8

(* All that is read of a published checkpoint, at whatever time, agrees on what the
   command depends on. *)
LEMMA ReadAlike ==
    ASSUME NEW c \in Checkpoints, ~c.local, NEW i \in Infos(c), NEW j \in Infos(c)
    PROVE  /\ i.hybrid = j.hybrid /\ i.hybrid \in BOOLEAN
           /\ i.hybrid = AttentionLayout(LanguageConfig(c.raw)).hybrid
           /\ i.quant = None <=> j.quant = None
           /\ i.quant = None <=> Unnamed(PublishedQuant(c))
<1>1. IsCheckpoint(c)
  BY PlannerAssumption
<1>2. Layout(c) = AttentionLayout(LanguageConfig(c.raw))
  BY DEF Layout
<1> QED BY <1>1, <1>2, InfoOf DEF Sizes

-----------------------------------------------------------------------------
LEMMA InitInv == Init => IInv
BY DEF Init, IInv, Shown, FlagsFollowCheckpoint

LEMMA InspectInv ==
    ASSUME IInv, NEW want \in Contexts, Inspect(want)
    PROVE  IInv'
<1>1. PICK info \in Infos(ck), found \in BOOLEAN :
        page' = [info |-> info, host |-> host, want |-> want,
                 plan |-> Inspected(info, host, want),
                 gguf |-> found /\ Inspected(info, host, want).engine = "llamacpp"
                            /\ ~ck.local /\ ck.gguf # {}]
  BY Zenon DEF Inspect
<1>2. cmd' = None /\ ck' = ck /\ host' = host
  BY DEF Inspect
<1>3. ck \in Checkpoints /\ host \in Hosts
  BY DEF IInv
<1>4. /\ page'.info = info /\ page'.host = host /\ page'.want = want
      /\ page'.plan = Inspected(info, host, want)
      /\ page'.gguf => ck.gguf # {}
  BY <1>1
<1>5. Shown'
  BY <1>2, <1>3, <1>4, Zenon DEF Shown
<1>6. FlagsFollowCheckpoint'
  BY <1>2 DEF FlagsFollowCheckpoint
<1> QED BY <1>2, <1>3, <1>5, <1>6 DEF IInv

LEMMA RehostInv ==
    ASSUME IInv, Rehost
    PROVE  IInv'
BY Zenon DEF IInv, Shown, FlagsFollowCheckpoint, Rehost

(* The vLLM flags of a request for a published checkpoint. *)
LEMMA CardsFollow ==
    ASSUME IInv, page # None, Fits(page.plan), ~ck.local, page.plan.engine = "vllm",
           NEW old \in BOOLEAN, NEW fetched \in BOOLEAN, old => fetched,
           NEW info \in Infos(ck)
    PROVE  LET spec == IF fetched THEN Corrected(Request(old), info) ELSE Request(old)
               flags == BuildVLLM(spec)
           IN  /\ AttentionLayout(LanguageConfig(ck.raw)).hybrid => ~flags.prefix /\ flags.kv = None
               /\ flags.quant # None => Unnamed(PublishedQuant(ck)) /\ flags.quant = "fp32"
               /\ flags.source = "repo"
<1> DEFINE spec == IF fetched THEN Corrected(Request(old), info) ELSE Request(old)
           hybrid == AttentionLayout(LanguageConfig(ck.raw)).hybrid
<1>1. ck \in Checkpoints /\ page.info \in Infos(ck)
  BY DEF IInv, Shown
<1>2. /\ info.hybrid = hybrid /\ page.info.hybrid = hybrid /\ hybrid \in BOOLEAN
      /\ info.quant = None <=> page.info.quant = None
      /\ page.info.quant = None <=> Unnamed(PublishedQuant(ck))
  BY <1>1, ReadAlike
<1>3. /\ page.plan.quant = Format(page.info, page.host)
      /\ page.plan.fromCkpt = (page.info.quant # None)
      /\ page.plan.kv = KVFormat(page.info, page.host)
  BY PageForCards
<1>4. spec.hybrid = hybrid
  <2>1. CASE fetched
    BY <1>2, <2>1 DEF Corrected, Request
  <2>2. CASE ~fetched
    <3>1. ~old
      BY <2>2
    <3>2. spec.hybrid = (page.info.hybrid /\ ~old)
      BY <2>2 DEF Request
    <3> QED BY <1>2, <3>1, <3>2
  <2> QED BY <2>1, <2>2
<1>5. hybrid => spec.kv = "auto"
  <2>1. CASE fetched
    BY <1>2, <2>1 DEF Corrected, Request
  <2>2. CASE ~fetched
    BY <1>2, <1>3, <2>2 DEF Request, KVFormat
  <2> QED BY <2>1, <2>2
<1>6. spec.fromCkpt = (page.info.quant # None)
  <2>1. CASE fetched
    <3>1. spec.fromCkpt = (info.quant # None)
      BY <2>1 DEF Corrected, Request
    <3> QED BY <1>2, <3>1
  <2>2. CASE ~fetched
    <3>1. ~old
      BY <2>2
    <3>2. spec.fromCkpt = (page.plan.fromCkpt /\ ~old)
      BY <2>2 DEF Request
    <3> QED BY <1>3, <3>1, <3>2
  <2> QED BY <2>1, <2>2
<1>7. spec.quant = page.plan.quant
  BY DEF Corrected, Request
<1>8. page.info.quant = None => page.plan.quant \in {"fp32", "bf16", "fp16"}
  BY <1>3, NativeNames DEF Format
<1> HIDE DEF spec
<1>9. BuildVLLM(spec).quant # None =>
          Unnamed(PublishedQuant(ck)) /\ BuildVLLM(spec).quant = "fp32"
  BY <1>2, <1>6, <1>7, <1>8 DEF BuildVLLM
<1>10. hybrid => ~BuildVLLM(spec).prefix /\ BuildVLLM(spec).kv = None
  BY <1>4, <1>5 DEF BuildVLLM
<1>11. BuildVLLM(spec).source = "repo"
  BY DEF BuildVLLM
<1> QED BY <1>9, <1>10, <1>11 DEF spec

(* The llama.cpp flags of a request for a repository of conversions. *)
LEMMA HostFollows ==
    ASSUME NEW spec, spec.engine # "vllm", BuildCommand(spec) # None
    PROVE  LET flags == BuildCommand(spec) IN
           /\ flags.engine = "llamacpp"
           /\ flags.quant = spec.quant
           /\ flags.source = "gguf" => spec.gguf
BY DEF BuildCommand, BuildLlamaCpp

LEMMA InstallInv ==
    ASSUME IInv, NEW old \in BOOLEAN, NEW listed \in BOOLEAN, NEW fetched \in BOOLEAN,
           Install(old, listed, fetched)
    PROVE  IInv'
<1> DEFINE Req(quant) == IF page.plan.engine = "llamacpp" /\ page.gguf
                           THEN [Request(old) EXCEPT !.quant = quant] ELSE Request(old)
           Sent(info, quant) == IF fetched THEN Corrected(Req(quant), info) ELSE Req(quant)
<1>1. page # None /\ Fits(page.plan) /\ ck' = ck /\ host' = host /\ page' = page
  BY DEF Install
<1>2. PICK info \in Infos(ck),
           quant \in PickQuant(IF listed THEN ck.gguf ELSE {}, page.plan.quant) :
        /\ BuildCommand(Sent(info, quant)) # None
        /\ cmd' = [old |-> old, listed |-> listed, fetched |-> fetched,
                   flags |-> BuildCommand(Sent(info, quant))]
  BY Zenon DEF Install
<1> DEFINE req == Req(quant)
           spec == Sent(info, quant)
           flags == BuildCommand(spec)
<1>3. /\ cmd'.old = old /\ cmd'.listed = listed /\ cmd'.fetched = fetched
      /\ cmd'.flags = flags
  BY <1>2
<1>4. /\ page.info \in Infos(ck) /\ page.plan = Inspected(page.info, page.host, page.want)
      /\ page.gguf => ck.gguf # {}
  BY <1>1 DEF IInv, Shown
<1>5. page.plan.engine \in {"vllm", "llamacpp"}
  BY <1>4, InspectedParts, PlanDomain
<1>6. req.engine = page.plan.engine /\ req.gguf = page.gguf
  BY DEF Request
<1>7. spec.engine = page.plan.engine /\ spec.gguf = page.gguf /\ spec.quant = req.quant
  <2>1. CASE fetched
    <3>1. DOMAIN req = {"engine", "quant", "kv", "hybrid", "fromCkpt", "tp", "len", "seqs",
                        "gguf", "localGGUF"}
      BY DEF Request
    <3>2. spec = [req EXCEPT !.localGGUF = info.gguf, !.hybrid = info.hybrid,
                             !.fromCkpt = info.quant # None,
                             !.kv = IF info.hybrid THEN "auto" ELSE @]
      BY <2>1, Zenon DEF Corrected
    <3> HIDE DEF req, spec
    <3>3. spec.engine = req.engine /\ spec.gguf = req.gguf /\ spec.quant = req.quant
      BY <3>1, <3>2
    <3> QED BY <1>6, <3>3
  <2>2. CASE ~fetched
    BY <1>6, <2>2
  <2> QED BY <2>1, <2>2
<1>8. ASSUME ~ck.local, old => fetched
      PROVE  /\ flags.engine = "vllm" /\ AttentionLayout(LanguageConfig(ck.raw)).hybrid =>
                   ~flags.prefix /\ flags.kv = None
             /\ flags.engine = "vllm" /\ flags.quant # None =>
                   Unnamed(PublishedQuant(ck)) /\ flags.quant = "fp32"
             /\ flags.source = "gguf" /\ listed => flags.quant \in ck.gguf
  <2>1. CASE page.plan.engine = "vllm"
    <3>1. spec = IF fetched THEN Corrected(Request(old), info) ELSE Request(old)
      BY <2>1
    <3>2. flags = BuildVLLM(spec)
      BY <1>7, <2>1 DEF BuildCommand
    <3>3. /\ AttentionLayout(LanguageConfig(ck.raw)).hybrid =>
               ~BuildVLLM(spec).prefix /\ BuildVLLM(spec).kv = None
          /\ BuildVLLM(spec).quant # None =>
               Unnamed(PublishedQuant(ck)) /\ BuildVLLM(spec).quant = "fp32"
          /\ BuildVLLM(spec).source = "repo"
      BY <1>1, <1>8, <2>1, <3>1, CardsFollow
    <3> QED BY <3>2, <3>3
  <2>2. CASE page.plan.engine = "llamacpp"
    <3>1. /\ flags.engine = "llamacpp"
          /\ flags.quant = spec.quant
          /\ flags.source = "gguf" => spec.gguf
      BY <1>2, <1>7, <2>2, HostFollows
    <3>2. ASSUME flags.source = "gguf", listed
          PROVE  flags.quant \in ck.gguf
      <4>1. page.gguf /\ ck.gguf # {}
        BY <1>4, <1>7, <3>1, <3>2
      <4>2. req.quant = quant
        BY <2>2, <4>1 DEF Request
      <4>3. quant \in PickQuant(ck.gguf, page.plan.quant)
        BY <1>2, <3>2
      <4>4. quant \in ck.gguf
        BY <4>1, <4>3, PickedListed
      <4> QED BY <1>7, <3>1, <4>2, <4>4
    <3> QED BY <3>1, <3>2
  <2> QED BY <1>5, <2>1, <2>2
<1>9. FlagsFollowCheckpoint'
  <2> HIDE DEF flags
  <2> QED BY <1>1, <1>3, <1>8 DEF FlagsFollowCheckpoint, FlagsFit, Unnamed
<1>10. Shown'
  BY <1>1 DEF IInv, Shown
<1> QED BY <1>1, <1>9, <1>10 DEF IInv

LEMMA NextInv == IInv /\ [Next]_vars => IInv'
<1> SUFFICES ASSUME IInv, [Next]_vars
             PROVE  IInv'
  OBVIOUS
<1>1. CASE UNCHANGED vars
  BY <1>1 DEF vars, IInv, Shown, FlagsFollowCheckpoint, FlagsFit
<1>2. ASSUME NEW want \in Contexts, Inspect(want)
      PROVE  IInv'
  BY <1>2, InspectInv
<1>3. CASE Rehost
  BY <1>3, RehostInv
<1>4. ASSUME NEW old \in BOOLEAN, NEW listed \in BOOLEAN, NEW fetched \in BOOLEAN,
             Install(old, listed, fetched)
      PROVE  IInv'
  BY <1>4, InstallInv
<1> QED BY <1>1, <1>2, <1>3, <1>4 DEF Next

(* Whatever is published, whatever hosts there are: the page shows the inspection
   of this checkpoint for some host there was, and the command last built from a page
   has the flags that the checkpoint calls for. *)
THEOREM Invariant == Spec => []IInv
BY InitInv, NextInv, PTL DEF Spec

-----------------------------------------------------------------------------
(***************************************************************************)
(* The theorems.                                                           *)
(***************************************************************************)
LEMMA PageSizes ==
    ASSUME IInv, page # None
    PROVE  Sizes(page.info) /\ IsHost(page.host) /\ page.want \in Nat
<1>1. ck \in Checkpoints /\ page.info \in Infos(ck) /\ page.host \in Hosts /\ page.want \in Contexts
  BY DEF IInv, Shown
<1>2. IsCheckpoint(ck) /\ IsHost(page.host) /\ page.want \in Nat
  BY <1>1, PlannerAssumption
<1> QED BY <1>1, <1>2, InfoOf

LEMMA InvWithinMemory == IInv => WithinMemory
<1> SUFFICES ASSUME IInv, page # None, Fits(page.plan), page.plan.seqs > 1
             PROVE  LET plan == page.plan
                        need == plan.weight + plan.seqs * plan.len * plan.kvPerTok
                    IN IF plan.engine = "vllm"
                         THEN \A i \in DOMAIN page.host.gpus :
                                 need * 100 <= page.host.gpus[i].vram * plan.tp * 90
                         ELSE need + CPUHeadroom <= page.host.ram
  BY DEF WithinMemory
<1> DEFINE info == page.info
           node == page.host
           want == page.want
           plan == PlanFor(info, node, want)
           need == plan.weight + plan.seqs * plan.len * plan.kvPerTok
<1>1. Sizes(info) /\ IsHost(node) /\ want \in Nat
  BY PageSizes
<1>2. page.plan = Inspected(info, node, want)
  BY DEF IInv, Shown
<1>3. /\ page.plan.engine = plan.engine /\ page.plan.tp = plan.tp
      /\ page.plan.weight = plan.weight /\ page.plan.seqs = plan.seqs
      /\ page.plan.len = plan.len /\ page.plan.kvPerTok = plan.kvPerTok
  BY <1>2, InspectedParts
<1>4. Fits(Inspected(info, node, want))
  BY <1>2
<1>5. CASE node.gpus # <<>>
  <2>1. plan = CardPlan(info, node, want) /\ plan.engine = "vllm"
    BY <1>4, <1>5, InspectedFits, PlanDomain
  <2>2. ~(Usable(info, node) <= Weight(info, node)) /\ plan.tp = TP(info, node)
    BY <1>3, <2>1, PageForCards
  <2>3. CardPlan(info, node, want).seqs > 1
    BY <1>3, <2>1
  <2>4. need \in Nat /\ need <= Usable(info, node)
    BY <1>1, <1>5, <2>1, <2>2, <2>3, CardPlanFits
  <2>5. ASSUME NEW i \in DOMAIN node.gpus
        PROVE  need * 100 <= node.gpus[i].vram * plan.tp * 90
    <3> DEFINE u == Usable(info, node)
               w == node.gpus[i].vram * plan.tp * 90
    <3>1. u \in Nat /\ u * 100 <= w
      BY <1>1, <1>5, <2>2, UsableIs
    <3>2. node.gpus[i].vram \in Nat /\ TP(info, node) \in Nat
      BY <1>1, <1>5, UsableIs, CardsTyped DEF IsHost
    <3>3. w \in Nat
      BY <2>2, <3>2
    <3> HIDE DEF u, w, need
    <3>4. need * 100 <= w
      BY <2>4, <3>1, <3>3 DEF u
    <3> QED BY <3>4 DEF w
  <2> QED BY <1>3, <2>1, <2>5
<1>6. CASE node.gpus = <<>>
  <2>1. plan = PlanCPU(info, node, want) /\ plan.engine = "llamacpp" /\ plan.blockers = {}
    BY <1>4, <1>6, InspectedFits, PlanDomain
  <2>2. need + CPUHeadroom <= node.ram
    BY <1>1, <1>3, <2>1, HostPlanFits
  <2> QED BY <1>3, <2>1, <2>2
<1> QED BY <1>5, <1>6

(* A plan that fits and serves more than one request has room for its weights and
   for the full windows of all of them, on each card PlanFor shards it over or in the
   memory of a host without cards: for every checkpoint, every host and every context
   asked for. *)
THEOREM PlansFit == Spec => []WithinMemory
BY Invariant, InvWithinMemory, PTL

(* What the node as a whole can do, each of its cards can. *)
LEMMA EachCardCan ==
    ASSUME NEW gpus, NEW i \in DOMAIN gpus, NEW q, CanRunQuant(NodeArch(gpus), q)
    PROVE  CanRunQuant(ArchOf(gpus[i].card), q)
<1>1. NodeArch(gpus).can \subseteq ArchOf(gpus[i].card).can
  BY DEF NodeArch
<1> HIDE DEF ArchOf, NodeArch
<1> QED BY <1>1 DEF CanRunQuant

LEMMA InvRunsOnEveryCard == IInv => RunsOnEveryCard
<1> SUFFICES ASSUME IInv, page # None, Fits(page.plan), page.plan.engine = "vllm",
                    NEW i \in DOMAIN page.host.gpus
             PROVE  /\ CanRunQuant(ArchOf(page.host.gpus[i].card), page.plan.quant)
                    /\ page.plan.kv = "fp8" => "fp8KVCache" \in ArchOf(page.host.gpus[i].card).can
  BY Zenon DEF RunsOnEveryCard
<1>1. /\ CanRunQuant(NodeArch(page.host.gpus), page.plan.quant)
      /\ page.plan.kv = KVFormat(page.info, page.host)
  BY PageForCards
<1>2. page.plan.kv = "fp8" => "fp8KVCache" \in NodeArch(page.host.gpus).can
  BY <1>1 DEF KVFormat
<1>3. NodeArch(page.host.gpus).can \subseteq ArchOf(page.host.gpus[i].card).can
  BY DEF NodeArch
<1> QED BY <1>1, <1>2, <1>3, EachCardCan

(* A plan that fits names a weight format and a KV format that each card of the node
   can run: nodeArch meets what archOf knows of the cards, however they are mixed. *)
THEOREM CardsRunIt == Spec => []RunsOnEveryCard
BY Invariant, InvRunsOnEveryCard, PTL

(* The command BuildCommand makes of an install has the flags that a published
   checkpoint calls for: nothing a hybrid model cannot have, no quantization where it
   names one, none but the precision fp32 where it has none, a conversion there is; unless the page was an old one and adminInstall
   could not read the checkpoint again. *)
THEOREM CommandFollowsCheckpoint == Spec => []FlagsFollowCheckpoint
<1>1. IInv => FlagsFollowCheckpoint
  BY DEF IInv
<1> QED BY Invariant, <1>1, PTL

LEMMA InspectedGrows ==
    ASSUME NEW info, Sizes(info), NEW new, NEW old, IsHost(new), IsHost(old),
           Roomier(new, old), NEW want \in Nat, Fits(Inspected(info, old, want))
    PROVE  NoWorse(Inspected(info, new, want), Inspected(info, old, want))
<1> DEFINE p == PlanFor(info, old, want)
           q == PlanFor(info, new, want)
<1>1. NoWorse(q, p) /\ q.engine = p.engine
  <2>1. CASE old.gpus # <<>>
    <3>1. new.gpus # <<>>
      BY <2>1, RoomierCards
    <3>2. PlanGPU(info, old, want).blockers = {}
      BY <2>1, InspectedFits
    <3>3. NoWorse(PlanGPU(info, new, want), PlanGPU(info, old, want))
      BY <2>1, <3>2, CardPlanGrows
    <3> QED BY <2>1, <3>1, <3>3, PlanDomain DEF PlanFor
  <2>2. CASE old.gpus = <<>>
    <3>1. new.gpus = <<>>
      BY <2>2 DEF Roomier, IsHost
    <3>2. PlanCPU(info, old, want).blockers = {}
      BY <2>2, InspectedFits
    <3>3. NoWorse(PlanCPU(info, new, want), PlanCPU(info, old, want))
      BY <3>2, HostPlanGrows
    <3> QED BY <2>2, <3>1, <3>3, PlanDomain DEF PlanFor
  <2> QED BY <2>1, <2>2
<1>2. Unserved(info, new, q.engine) = Unserved(info, old, p.engine)
  BY <1>1, RoomierParts DEF Unserved
<1>3. Unserved(info, old, p.engine) = {}
  BY InspectedFits
<1>4. /\ Inspected(info, new, want).blockers = q.blockers \cup Unserved(info, new, q.engine)
      /\ Inspected(info, new, want).len = q.len
      /\ Inspected(info, new, want).seqs = q.seqs
      /\ Inspected(info, old, want).len = p.len
      /\ Inspected(info, old, want).seqs = p.seqs
  BY InspectedParts
<1> HIDE DEF p, q
<1> QED BY <1>1, <1>2, <1>3, <1>4 DEF NoWorse, Fits

(* More memory never hurts: when the page for a node is followed by the page for the
   same node with at least the memory, a model that fitted still fits, with no shorter
   a context, and with as many requests where the context is the same.  The trimming
   of the context is monotone in the room the weights leave, however far it halves. *)
THEOREM MemoryHelps == Spec => MoreMemoryNeverHurts
<1> DEFINE Pages == /\ page # None /\ page' # None /\ page'.info = page.info
                    /\ page'.want = page.want /\ Roomier(page'.host, page.host)
                    /\ Fits(page.plan)
           Holds == /\ Fits(page'.plan)
                    /\ page'.plan.len >= page.plan.len
                    /\ page'.plan.len = page.plan.len => page'.plan.seqs >= page.plan.seqs
<1>1. IInv /\ IInv' => (Pages => Holds)
  <2> SUFFICES ASSUME IInv, IInv', Pages
               PROVE  Holds
    OBVIOUS
  <2>1. Sizes(page.info) /\ IsHost(page.host) /\ page.want \in Nat
    BY PageSizes
  <2>2. IsHost(page'.host)
    <3>1. page'.host \in Hosts
      BY DEF IInv, Shown
    <3> QED BY <3>1, PlannerAssumption
  <2>3. /\ page.plan = Inspected(page.info, page.host, page.want)
        /\ page'.plan = Inspected(page'.info, page'.host, page'.want)
    BY DEF IInv, Shown
  <2>4. page'.plan = Inspected(page.info, page'.host, page.want)
    BY <2>3
  <2>5. Fits(Inspected(page.info, page.host, page.want))
    BY <2>3
  <2>6. NoWorse(Inspected(page.info, page'.host, page.want),
                Inspected(page.info, page.host, page.want))
    BY <2>1, <2>2, <2>5, InspectedGrows
  <2>7. NoWorse(page'.plan, page.plan)
    BY <2>3, <2>4, <2>6
  <2> QED BY <2>7 DEF NoWorse
<1>2. IInv /\ IInv' => [Pages => Holds]_vars
  BY <1>1
<1> QED BY <1>2, Invariant, PTL DEF MoreMemoryNeverHurts
=============================================================================
