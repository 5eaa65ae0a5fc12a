------------------------------- MODULE FreshScan -------------------------------
(***************************************************************************)
(* What a scan of a project promises, whatever it reads or remembers: for   *)
(* each file in its scope, the symbols of a text the file had at some time   *)
(* between the scan's beginning and its end, or no symbols if the file was   *)
(* missing at some such time.  One that trusts what earlier scans remember   *)
(* promises this but for the files that those may have missed: one saved in  *)
(* a way they overlook, one outside the scope of what they remember.         *)
(***************************************************************************)
CONSTANTS Files, Texts, Scopes, Procs, None

VARIABLES texts,    \* texts[f]: the contents of the file, or None
          running,  \* invocations of cq that are scanning
          scope,    \* scope[p]: the files p asks about
          trusts,   \* trusts[p]: p relies on what others remember
          saw,      \* saw[p][f]: what f has been while p was running
          out,      \* out[p]: what p has returned, or None; for each file the text
                    \* whose symbols it has
          missed    \* files of which what is remembered may be wrong

vars == <<texts, running, scope, trusts, saw, out, missed>>

Contents == [Files -> Texts \cup {None}]

Current(p, r) ==
    /\ \A f \in scope[p] : r[f] \in saw[p][f] \/ (trusts[p] /\ f \in missed)
    /\ \A f \in Files \ scope[p] : r[f] = None

Init ==
    /\ texts \in Contents
    /\ running = {} /\ missed = {}
    /\ scope = [p \in Procs |-> {}]
    /\ trusts = [p \in Procs |-> FALSE]
    /\ saw = [p \in Procs |-> [f \in Files |-> {}]]
    /\ out = [p \in Procs |-> None]

Change(f, t) ==
    /\ texts' = [texts EXCEPT ![f] = t]
    /\ saw' = [p \in Procs |->
                 IF p \in running THEN [saw[p] EXCEPT ![f] = @ \cup {t}] ELSE saw[p]]
    /\ \/ missed' = missed
       \/ t # None /\ missed' = missed \cup {f}
    /\ UNCHANGED <<running, scope, trusts, out>>

Begin(p, s, trust) ==
    /\ p \notin running
    /\ running' = running \cup {p}
    /\ scope' = [scope EXCEPT ![p] = s] /\ trusts' = [trusts EXCEPT ![p] = trust]
    /\ saw' = [saw EXCEPT ![p] = [f \in Files |-> {texts[f]}]]
    /\ out' = [out EXCEPT ![p] = None]
    /\ UNCHANGED <<texts, missed>>

Return(p) ==
    /\ p \in running
    /\ \E r \in Contents : Current(p, r) /\ out' = [out EXCEPT ![p] = r]
    /\ running' = running \ {p}
    /\ \/ missed' = missed
       \/ trusts[p] /\ missed' = missed \cup (Files \ scope[p])
    /\ UNCHANGED <<texts, scope, trusts, saw>>

Abandon(p) ==
    /\ p \in running
    /\ running' = running \ {p}
    /\ UNCHANGED <<texts, scope, trusts, saw, out, missed>>

\* What is remembered is cleared, and nobody still relies on it.
Forget ==
    /\ \A p \in running : ~ trusts[p]
    /\ missed' = {}
    /\ UNCHANGED <<texts, running, scope, trusts, saw, out>>

Next ==
    \/ \E f \in Files, t \in Texts \cup {None} : Change(f, t)
    \/ \E p \in Procs :
          \/ Return(p) \/ Abandon(p)
          \/ \E s \in Scopes, trust \in BOOLEAN : Begin(p, s, trust)
    \/ Forget

Spec == Init /\ [][Next]_vars
=============================================================================
