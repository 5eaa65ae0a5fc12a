------------------------------ MODULE MCScanCache ------------------------------
(* ScanCache with three texts of which two have the same length. *)
EXTENDS ScanCache, TLC

CONSTANTS short, fine, good
SomeTexts == {fine, good}
AllTexts  == {short, fine, good}
SizeOf    == [t \in SomeTexts |-> 4]
SizesOf   == [t \in AllTexts |-> IF t = short THEN 2 ELSE 4]

Parts     == {{f} : f \in Files} \cup {Files}
NoneOrAll == {{}, Files}       \* a directory without files of the project, or all

Symmetry == Permutations(Files) \cup Permutations(Procs) \cup Permutations(SomeTexts)
=============================================================================
