----------------------------- MODULE RobotsParser -----------------------------
(***************************************************************************)
(* _parse_robots of src/reconforgex/modules/robots_parser.py: one pass over *)
(* the lines of a robots.txt, with the section under way in locals that are *)
(* saved to `rules' at the next User-agent line and at the end; and the     *)
(* collection of all paths that run() does with the rules.                  *)
(*                                                                         *)
(* A line is what it is to the parser: its keyword, and the value its       *)
(* regular expression finds.  NoValue stands for a line whose expression    *)
(* does not match or whose value is empty or no number, which all keywords  *)
(* but User-agent ignore; a User-agent line that does not match is about    *)
(* AnyAgent (one with an empty value is about the agent named so).  Blank   *)
(* lines and comments are the keyword "none".                               *)
(***************************************************************************)
EXTENDS Integers, FiniteSets, SequencesExt

CONSTANTS Agents,    \* names in User-agent lines, AnyAgent among them
          AnyAgent,  \* "*"
          Paths,     \* paths and sitemap URLs
          Interesting, \* those that match INTERESTING_PATH_PATTERNS
          Delays,    \* numbers of seconds
          NoValue,
          MaxLines   \* bound: lines of the file

ASSUME AgentsAssumption == AnyAgent \in Agents
ASSUME ValuesAssumption == NoValue \notin Agents \cup Paths \cup Delays
ASSUME LinesAssumption == MaxLines \in Nat

VARIABLES content,  \* the lines read so far
          current_agent, current_disallowed, current_allowed,
          current_sitemaps, current_delay,
          rules,
          parsed,   \* has the last line been read?
          result    \* RobotsResult: the collected paths

current == <<current_agent, current_disallowed, current_allowed,
             current_sitemaps, current_delay>>
parse_vars == <<content, current, rules, parsed, result>>

Lines ==
  [keyword : {"user-agent"}, value : Agents \cup {NoValue}]
    \cup [keyword : {"disallow", "allow", "sitemap"}, value : Paths \cup {NoValue}]
    \cup [keyword : {"crawl-delay"}, value : Delays \cup {NoValue}]
    \cup [keyword : {"none"}, value : {NoValue}]

ParseInit ==
  /\ content = <<>>
  /\ current_agent = AnyAgent
  /\ current_disallowed = <<>> /\ current_allowed = <<>> /\ current_sitemaps = <<>>
  /\ current_delay = NoValue
  /\ rules = <<>>
  /\ parsed = FALSE
  /\ result = [disallowed |-> <<>>, allowed |-> <<>>, sitemaps |-> <<>>, interesting |-> <<>>]

Rule == [user_agent |-> current_agent, disallowed |-> current_disallowed,
         allowed |-> current_allowed, crawl_delay |-> current_delay,
         sitemaps |-> current_sitemaps]

(* Mutant: a section counts only if it disallows something. *)
MutSavedDisallowOnly ==
  IF current_disallowed # <<>> THEN Append(rules, Rule) ELSE rules

(* A section without a path or a sitemap is not saved, whatever its delay.  *)
Saved ==
  IF <<current_disallowed, current_allowed, current_sitemaps>> # <<<<>>, <<>>, <<>>>>
  THEN Append(rules, Rule) ELSE rules

(* Mutant: the delay of the section before is kept. *)
MutUserAgentKeepsDelay(line) ==
  /\ line.keyword = "user-agent"
  /\ rules' = Saved
  /\ current_agent' = IF line.value = NoValue THEN AnyAgent ELSE line.value
  /\ current_disallowed' = <<>> /\ current_allowed' = <<>> /\ current_sitemaps' = <<>>
  /\ UNCHANGED current_delay

UserAgent(line) ==
  /\ line.keyword = "user-agent"
  /\ rules' = Saved
  /\ current_agent' = IF line.value = NoValue THEN AnyAgent ELSE line.value
  /\ current_disallowed' = <<>> /\ current_allowed' = <<>> /\ current_sitemaps' = <<>>
  /\ current_delay' = NoValue

Disallow(line) ==
  /\ line.keyword = "disallow" /\ line.value # NoValue
  /\ current_disallowed' = Append(current_disallowed, line.value)
  /\ UNCHANGED <<current_agent, current_allowed, current_sitemaps, current_delay, rules>>

Allow(line) ==
  /\ line.keyword = "allow" /\ line.value # NoValue
  /\ current_allowed' = Append(current_allowed, line.value)
  /\ UNCHANGED <<current_agent, current_disallowed, current_sitemaps, current_delay, rules>>

CrawlDelay(line) ==
  /\ line.keyword = "crawl-delay" /\ line.value # NoValue
  /\ current_delay' = line.value
  /\ UNCHANGED <<current_agent, current_disallowed, current_allowed, current_sitemaps, rules>>

Sitemap(line) ==
  /\ line.keyword = "sitemap" /\ line.value # NoValue
  /\ current_sitemaps' = Append(current_sitemaps, line.value)
  /\ UNCHANGED <<current_agent, current_disallowed, current_allowed, current_delay, rules>>

Ignore(line) ==
  /\ line.keyword # "user-agent" /\ line.value = NoValue
  /\ UNCHANGED <<current, rules>>

(* One iteration of the loop over content.splitlines().                     *)
ReadLine ==
  /\ ~parsed
  /\ Len(content) < MaxLines
  /\ \E line \in Lines :
       /\ content' = Append(content, line)
       /\ \/ UserAgent(line) \/ Disallow(line) \/ Allow(line)
          \/ CrawlDelay(line) \/ Sitemap(line) \/ Ignore(line)
  /\ UNCHANGED <<parsed, result>>

(* Mutant: an entry repeated later moves to its last place. *)
MutLastOccurrences(s) ==
  FoldLeft(LAMBDA seen, v : Append(Remove(seen, v), v), <<>>, s)

(* list(dict.fromkeys(s)): the first occurrence of each entry, in order.    *)
FirstOccurrences(s) ==
  FoldLeft(LAMBDA seen, v : IF Contains(seen, v) THEN seen ELSE Append(seen, v), <<>>, s)

(* all_<field> of run(): the lists of all rules, each extending those so far. *)
Joined(rs, field) == FoldLeft(LAMBDA all, rule : all \o rule[field], <<>>, rs)

(* _find_interesting_paths. *)
FindInteresting(paths) ==
  FoldLeft(LAMBDA found, path : IF path \in Interesting THEN Append(found, path) ELSE found,
           <<>>, paths)

(* The end of the file: the last section is saved and run() collects.       *)
EndOfFile ==
  /\ ~parsed
  /\ parsed' = TRUE
  /\ rules' = Saved
  /\ LET Collected(field) == FirstOccurrences(Joined(Saved, field)) IN
     result' = [disallowed |-> Collected("disallowed"),
                allowed |-> Collected("allowed"),
                sitemaps |-> Collected("sitemaps"),
                interesting |-> FindInteresting(Collected("disallowed"))]
  /\ UNCHANGED <<content, current>>

ParseNext == ReadLine \/ EndOfFile

ParseSpec == ParseInit /\ [][ParseNext]_parse_vars

-----------------------------------------------------------------------------
(* What the lines say, section by section, without a running state: a       *)
(* section starts before the first line and at every User-agent line.       *)
Starts == {0} \cup {i \in DOMAIN content : content[i].keyword = "user-agent"}

SaidBy(keyword) ==
  {i \in DOMAIN content : content[i].keyword = keyword /\ content[i].value # NoValue}

SaidIn(start, keyword) ==
  {i \in SaidBy(keyword) : start < i /\ \A s \in Starts : start < s => i < s}

(* The list holds the values of these lines in their order.                 *)
Place(i, lines) == Cardinality({j \in lines : j <= i})

Lists(list, lines) ==
  /\ Len(list) = Cardinality(lines)
  /\ \A i \in lines : list[Place(i, lines)] = content[i].value

AgentOf(start) ==
  IF start = 0 THEN AnyAgent
  ELSE IF content[start].value = NoValue THEN AnyAgent ELSE content[start].value

DelayOf(start) ==
  LET said == SaidIn(start, "crawl-delay")
  IN IF said = {} THEN NoValue ELSE content[Max(said)].value

ReadFrom(rule, start) ==
  /\ rule.user_agent = AgentOf(start)
  /\ Lists(rule.disallowed, SaidIn(start, "disallow"))
  /\ Lists(rule.allowed, SaidIn(start, "allow"))
  /\ Lists(rule.sitemaps, SaidIn(start, "sitemap"))
  /\ rule.crawl_delay = DelayOf(start)

Named ==
  {s \in Starts : \E keyword \in {"disallow", "allow", "sitemap"} : SaidIn(s, keyword) # {}}

(* The rules are the sections of the file in their order, each read from    *)
(* its own lines alone: no path, sitemap or delay of one section shows in   *)
(* another's rule, the one under way at the end of the file included, and   *)
(* the sections that name no path and no sitemap are the only ones missing. *)
SectionsReadAlone ==
  parsed =>
    /\ Len(rules) = Cardinality(Named)
    /\ \A s \in Named : ReadFrom(rules[Place(s, Named)], s)

(* The values of these lines, each where it first comes.                    *)
ListsOnce(list, lines) ==
  /\ ToSet(list) = {content[i].value : i \in lines}
  /\ \A i, j \in DOMAIN list : i < j =>
       \E k \in lines : /\ content[k].value = list[i]
                        /\ \A l \in lines : content[l].value = list[j] => k < l

(* The collected lists hold each path and sitemap of the file once, in the  *)
(* order in which the file first names them, whatever agents it is said of  *)
(* and however often; and so do those of the paths of interest.             *)
PathsOnceInOrder ==
  parsed =>
    /\ ListsOnce(result.disallowed, SaidBy("disallow"))
    /\ ListsOnce(result.allowed, SaidBy("allow"))
    /\ ListsOnce(result.sitemaps, SaidBy("sitemap"))
    /\ ListsOnce(result.interesting,
                 {i \in SaidBy("disallow") : content[i].value \in Interesting})

-----------------------------------------------------------------------------
Entries(r) ==
  {<<r.user_agent, "disallow", v>> : v \in ToSet(r.disallowed)}
    \cup {<<r.user_agent, "allow", v>> : v \in ToSet(r.allowed)}
    \cup {<<r.user_agent, "sitemap", v>> : v \in ToSet(r.sitemaps)}

Said == (UNION {Entries(r) : r \in ToSet(rules)}) \cup Entries(Rule)

Table == INSTANCE DirectiveTable
           WITH Kinds <- {"disallow", "allow", "sitemap"}, Values <- Paths,
                agent <- current_agent, table <- Said

(* The rules saved so far and the section under way hold, at every line,    *)
(* what was said of each agent: no line takes away or moves to another      *)
(* agent what an earlier one said.                                          *)
ImplementsTable == Table!Spec

ParseTypeOK ==
  /\ content \in Seq(Lines)
  /\ current_agent \in Agents
  /\ current_disallowed \in Seq(Paths)
  /\ current_allowed \in Seq(Paths)
  /\ current_sitemaps \in Seq(Paths)
  /\ current_delay \in Delays \cup {NoValue}
  /\ rules \in Seq([user_agent : Agents, disallowed : Seq(Paths), allowed : Seq(Paths),
                    crawl_delay : Delays \cup {NoValue}, sitemaps : Seq(Paths)])
  /\ parsed \in BOOLEAN

=============================================================================
