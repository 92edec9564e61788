---------------------------- MODULE MCServerRouter ----------------------------
(* ServerRouter for TLC: two models, two clients, and what each may ask.    *)
EXTENDS ServerRouter, TLC

CONSTANTS m1, m2, c1, c2, c3

TwoModels  == {m1, m2}
BothFound  == {{m1, m2}}
AnyFound   == SUBSET {m1, m2}
TwoClients == {c1, c2}
ThreeClients == {c1, c2, c3}

(* Two clients may reload at the same time, and the third loads a model.    *)
Shared == (c1 :> {"request", "reload"}) @@ (c2 :> {"unload", "reload"}) @@ (c3 :> {"load"})
OneEach == [c \in ThreeClients |-> 1]

(* One client reloads, or does anything else; another does not reload.      *)
OneReloads == (c1 :> {"request", "load", "unload", "reload"})
                @@ (c2 :> {"request", "load", "unload"})

OneOfTwo  == (c1 :> 1) @@ (c2 :> 1)
=============================================================================
