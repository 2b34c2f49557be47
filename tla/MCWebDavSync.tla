---- MODULE MCWebDavSync ----
(* Instances of WebDavSync for TLC.                                        *)
EXTENDS WebDavSync, TLC
CONSTANTS d1, d2, h1, h2, k1, k2, n1

Symmetry == Permutations({d1, d2})

OnlyAutomatic == {NoDecision}
KeepLocal == {NoDecision, [NoDecision EXCEPT !.conflict = "local"]}
(* One dialog of any kind at a time. *)
AnyDecision ==
    {NoDecision} \cup {[NoDecision EXCEPT !.conflict = c] : c \in Resolutions}
                 \cup {[NoDecision EXCEPT !.empty = e] : e \in {"restoreRemote", "keepEmpty"}}
                 \cup {[NoDecision EXCEPT !.shrink = "allow"]}
=============================
