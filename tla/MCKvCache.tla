------------------------------- MODULE MCKvCache --------------------------------
(* KvCache for TLC: a cache of three cells, two sequences, in four          *)
(* configurations, each with the bounds that keep it small.                 *)
EXTENDS KvCache

(* One stream, tokens of several sequences, context shift. *)
Joint   == [unified |-> TRUE, n_swa |-> 0, coupled |-> TRUE, whole |-> FALSE, fails |-> {"shift"},
            div |-> FALSE, shifts |-> {-1, 1}, max_pos |-> 2]

(* A window of two positions, a batch being one ubatch. *)
Window  == [unified |-> TRUE, n_swa |-> 2, coupled |-> FALSE, whole |-> TRUE, fails |-> {"compute"},
            div |-> FALSE, shifts |-> {-1}, max_pos |-> 3]

(* A stream for each sequence. *)
Apart   == [unified |-> FALSE, n_swa |-> 0, coupled |-> FALSE, whole |-> FALSE, fails |-> {"compute", "shift"},
            div |-> FALSE, shifts |-> {-1}, max_pos |-> 1]

(* Positions divided, as self-extend does. *)
Divided == [unified |-> TRUE, n_swa |-> 0, coupled |-> FALSE, whole |-> FALSE, fails |-> {"shift", "half"},
            div |-> TRUE, shifts |-> {}, max_pos |-> 1]

MCConfigs == {Joint, Window, Apart, Divided}

UbatchConfigs == {[Window EXCEPT !.whole = FALSE, !.max_pos = 4]}
=================================================================================
