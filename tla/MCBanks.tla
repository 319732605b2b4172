------------------------------ MODULE MCBanks ------------------------------
(* The mapper Banks is model-checked with: its table in mapper.go.         *)
EXTENDS Banks

(* Konami-SCC: four 8K windows, each register written through a narrow     *)
(* range of its own window.                                                *)
KonamiStart == [i \in 0..3 |-> 16384 + 8192 * i]
KonamiEnd == [i \in 0..3 |-> 24576 + 8192 * i]
KonamiInitial == [i \in 0..3 |-> i]
SCCSelects == [i \in 0..3 |-> 20480 + 8192 * i .. 22527 + 8192 * i]

(* One address in each switch range, one beside each, two of the chip's    *)
(* and one in RAM: 5000h, 5800h, 7000h, 7800h, 9000h, 9800h, 9801h, B000h, *)
(* B800h, C000h.                                                           *)
SCCAddrs == {20480, 22528, 28672, 30720, 36864, 38912, 38913, 45056, 47104, 49152}
=============================================================================
