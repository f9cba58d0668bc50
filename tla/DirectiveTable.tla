---------------------------- MODULE DirectiveTable ----------------------------
(***************************************************************************)
(* What a robots.txt says, line by line: every path or sitemap line adds    *)
(* its value to the agent of the nearest User-agent line above it, and a    *)
(* value once there is never taken away or given to another agent.          *)
(***************************************************************************)
CONSTANTS Agents, Kinds, Values, AnyAgent

VARIABLES agent,  \* whom the next line is about
          table   \* what was said so far: <<agent, kind, value>>

vars == <<agent, table>>

Init == agent = AnyAgent /\ table = {}

Address == agent' \in Agents /\ UNCHANGED table

Say ==
  /\ \E k \in Kinds, v \in Values : table' = table \cup {<<agent, k, v>>}
  /\ UNCHANGED agent

Next == Address \/ Say

Spec == Init /\ [][Next]_vars
=============================================================================
