------------------------------- MODULE MCPlanner -------------------------------
(* Instances of Planner for TLC: checkpoints and hosts of realistic sizes. *)
EXTENDS Planner

Geometry == [arch |-> "qwen", layers |-> 32, heads |-> 32, kvHeads |-> 8, headDim |-> 128,
             hidden |-> 4096, positions |-> 128, types |-> <<>>, interval |-> 0,
             mamba |-> FALSE, mla |-> FALSE, experts |-> 0, dtype |-> "bfloat16",
             quant |-> None, nested |-> None]

Wrapper(c) == [Geometry EXCEPT !.layers = 0, !.heads = 0, !.kvHeads = 0, !.headDim = 0,
                               !.positions = 0, !.nested = c]

Method(m) == [method |-> m, bits |-> 4, groups |-> {}]

Packed(groups) == [method |-> "compressed-tensors", bits |-> 0, groups |-> groups]

Published(raw, params, shards) ==
    [local |-> FALSE, raw |-> raw, params |-> params, shards |-> shards, gguf |-> {"q4_0", "q8_0"}]

Dense == Published(Geometry, 8192, 16384)
Hybrid == [Geometry EXCEPT !.interval = 4]

MCCheckpoints ==
    {Dense,
     [Dense EXCEPT !.raw.kvHeads = 0, !.raw.headDim = 0, !.gguf = {}],
     [Dense EXCEPT !.raw.quant = Method("fbgemm_fp8"), !.shards = 9000],
     [Dense EXCEPT !.raw.quant = Method("mxfp4"), !.shards = 6000, !.raw.arch = "new"],
     [Dense EXCEPT !.raw.quant = Packed({[bits |-> 4, float |-> FALSE], [bits |-> 8, float |-> TRUE]}),
                   !.shards = 0, !.gguf = {"q4_k_m"}],
     [Dense EXCEPT !.raw.quant = [Method("gptq") EXCEPT !.bits = 8], !.raw.layers = 0],
     Published(Wrapper([Hybrid EXCEPT !.quant = Method("awq_marlin")]), 32768, 20000),
     Published([Hybrid EXCEPT !.layers = 4, !.types = <<"full", "linear", "linear", "linear">>], 27648, 55296),
     Published([Geometry EXCEPT !.mla = TRUE, !.experts = 64, !.kvHeads = 1], 65536, 131072),
     [Dense EXCEPT !.local = TRUE, !.gguf = {"q8_0"}],
     [Dense EXCEPT !.local = TRUE, !.raw = Wrapper(Hybrid), !.gguf = {}]}

Host == [gpus |-> <<>>, ram |-> 65536, disk |-> 0, driver |-> <<12, 8>>, torch |-> <<12, 4>>,
         engines |-> {"vllm", "llamacpp"}, archs |-> {}]

GPU(card, vram) == [card |-> card, vram |-> vram]

Twins(card, vram, n) == [i \in 1..n |-> GPU(card, vram)]

Racks ==
    {<<>>, Twins("A100", 40960, 1), Twins("A100", 81920, 1), Twins("A100", 40960, 2),
     Twins("A100", 81920, 2), Twins("A100", 40960, 3), Twins("A100", 20480, 1),
     <<GPU("A100", 81920), GPU("A100", 40960)>>, <<GPU("L40", 46080), GPU("T4", 15360)>>,
     <<GPU("T4", 15360), GPU("L40", 46080)>>, Twins("P40", 24576, 2), Twins("V100", 32768, 1),
     <<GPU("A100", 40960), GPU("P40", 24576)>>, Twins("P100", 16384, 4), Twins("L40", 46080, 1),
     Twins("B200", 184320, 1), Twins("B300", 184320, 1), Twins("T4", 15360, 8)}

MCHosts ==
    {[Host EXCEPT !.gpus = g] : g \in Racks}
    \cup {[Host EXCEPT !.ram = r, !.disk = d] : r \in {16384, 65536}, d \in {8192, 40960}}
    \cup {[Host EXCEPT !.gpus = g, !.ram = 8192, !.disk = d] :
             g \in {Twins("A100", 81920, 2)}, d \in {0, 10240, 81920}}
    \cup {[Host EXCEPT !.gpus = Twins("A100", 81920, 1), !.driver = <<12, 2>>],
          [Host EXCEPT !.gpus = Twins("A100", 81920, 1), !.driver = None],
          [Host EXCEPT !.gpus = Twins("A100", 81920, 1), !.engines = {"llamacpp"}],
          [Host EXCEPT !.gpus = Twins("A100", 81920, 1), !.archs = {"qwen"}]}
=============================================================================
