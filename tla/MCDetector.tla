----------------------------- MODULE MCDetector -----------------------------
(* root/{a/{f1, f2, f5, h/{f4}}, b/{f3, x/}}: h has a hidden name, x and f2     *)
(* cannot be read, f3 and f5 are empty.                                        *)
EXTENDS Detector

CONSTANTS root, a, b, h, x, f1, f2, f3, f4, f5

MCDirs == {root, a, b, h, x}
MCFiles == {f1, f2, f3, f4, f5}
MCParent ==
    [e \in (MCDirs \cup MCFiles) \ {root} |->
        CASE e \in {a, b} -> root [] e \in {f1, f2, f5, h} -> a
          [] e \in {f3, x} -> b [] e = f4 -> h]
MCTokens == [f \in MCFiles |-> IF f \in {f3, f5} THEN 0 ELSE 1]
=============================================================================
