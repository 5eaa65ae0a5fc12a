----------------------------- MODULE TieredAnswer -----------------------------
(***************************************************************************)
(* What the resolution cascade promises for each command: the answer is the *)
(* best tier's that its mode allows and that has not failed, a tier is      *)
(* given up once only, and what is left is nothing only where a daemon says *)
(* so or the last tier has no use of the symbol to fall back on.            *)
(***************************************************************************)
CONSTANTS Commands, None

Modes   == {"off", "oneshot", "daemon"}
Tiers   == {"daemon", "oneshot", "graph"}
Answers == [tier : Tiers, found : BOOLEAN]

\* The language-server tiers are for the semantic modes, stack graphs for all.
Allowed(m) == IF m = "off" THEN {"graph"} ELSE Tiers

\* The tiers that come before t.
Better(t) == CASE t = "daemon"  -> {}
               [] t = "oneshot" -> {"daemon"}
               [] t = "graph"   -> {"daemon", "oneshot"}

VARIABLES mentioned, \* there are uses of the symbol's name in the project's text
          mode,    \* mode[c]: SemanticMode
          failed,  \* failed[c]: the tiers that gave c nothing
          answer   \* answer[c]: what c printed, or None

tierVars == <<mentioned, mode, failed, answer>>

TierInit ==
    /\ mentioned \in BOOLEAN
    /\ mode   \in [Commands -> Modes]
    /\ failed = [c \in Commands |-> {}]
    /\ answer = [c \in Commands |-> None]

Fail(c, t) ==
    /\ answer[c] = None
    /\ t \in Allowed(mode[c]) \ failed[c]
    /\ Better(t) \subseteq failed[c]
    /\ failed' = [failed EXCEPT ![c] = @ \cup {t}]
    /\ UNCHANGED <<mentioned, mode, answer>>

Answer(c, a) ==
    /\ answer[c] = None
    /\ a.tier \in Allowed(mode[c]) \ failed[c]
    /\ Better(a.tier) \cap Allowed(mode[c]) \subseteq failed[c]
    /\ a.found \/ a.tier = "daemon" \/ (a.tier = "graph" /\ ~ mentioned)
    /\ answer' = [answer EXCEPT ![c] = a]
    /\ UNCHANGED <<mentioned, mode, failed>>

TierNext == \E c \in Commands :
    \/ \E t \in {"daemon", "oneshot"} : Fail(c, t)
    \/ \E a \in Answers : Answer(c, a)

TierSpec == TierInit /\ [][TierNext]_tierVars
=============================================================================
