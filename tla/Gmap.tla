-------------------------------- MODULE Gmap --------------------------------
(***************************************************************************)
(* Access maps, src/gmap/: the rules of a tenant or of a team, how a rule   *)
(* is put into a file and how a set of rules is evaluated.                  *)
(*                                                                          *)
(* A path is a sequence of at most three names (pack, flow, node); the      *)
(* empty one is written _.  A name is a number that stands for its place in *)
(* the alphabet, and the flow Wild is written _ too.  A path as it is given  *)
(* has a second part, whether it is spelled the way Display writes it       *)
(* (`p/` and `p//f` are not).  A file is its rules in order and whether it  *)
(* has comments or blank lines; what they say is left out.                  *)
(***************************************************************************)
EXTENDS Integers, Sequences, FiniteSets, SequencesExt

Wild == 0
Public == "public"
Forbidden == "forbidden"
NoDecision == "none"

Rule(path, policy) == [path |-> path, policy |-> policy]

(* A path that is given: its names, and whether it is spelled as Display does. *)
Given(names) == [names |-> names, plain |-> TRUE]

EmptyFile == [commented |-> FALSE, rules |-> <<>>]

(* A file in which a path has at most one rule. *)
AccessFile ==
    {f \in [commented : BOOLEAN, rules : Seq([path : Seq(Nat), policy : {Public, Forbidden}])] :
       \A i, j \in DOMAIN f.rules : f.rules[i].path = f.rules[j].path => i = j}

(* What add_tenant and add_team put into a file they create: `_ = forbidden`. *)
ClosedFile == [commented |-> FALSE, rules |-> <<Rule(<<>>, Forbidden)>>]

(* `_` is the only path without a name. *)
parse_path_ok(given) == Len(given.names) <= 3 /\ (given.names = <<>> => given.plain)

-----------------------------------------------------------------------------
(* Evaluation *)

AnyFlow(path) == Len(path) = 2 /\ path[2] = Wild

matches_target(path, target) ==
    LET prefix == IF AnyFlow(path) THEN <<path[1]>> ELSE path
    IN IF Len(path) = 3 THEN target = path ELSE IsPrefix(prefix, target)

(* `p` is more specific than `p/_`. *)
specificity_rank(path) ==
    CASE path = <<>>     -> 0
      [] AnyFlow(path)   -> 2
      [] Len(path) = 1   -> 3
      [] OTHER           -> Len(path) + 2

(* The loop keeps the best decision so far; a later rule of the same rank replaces it. *)
Bug_Later(rank, best) == rank > best

Better(rank, best) == rank >= best

Decide(best, rule, target) ==
    IF matches_target(rule.path, target) /\ Better(specificity_rank(rule.path), best.rank)
    THEN [policy |-> rule.policy, rank |-> specificity_rank(rule.path)]
    ELSE best

Undecided == [policy |-> NoDecision, rank |-> -1]

eval_policy(rules, target) ==
    LET best[n \in 0..Len(rules)] == IF n = 0 THEN Undecided ELSE Decide(best[n - 1], rules[n], target)
    IN best[Len(rules)].policy

(* A team's rules decide if any of them matches, the tenant's otherwise. *)
eval_with_overlay(tenant, team, target) ==
    IF eval_policy(team, target) # NoDecision THEN eval_policy(team, target) ELSE eval_policy(tenant, target)

-----------------------------------------------------------------------------
(* upsert_policy *)

SetPolicy(rules, i, policy) == [rules EXCEPT ![i].policy = policy]

Hits(rules, path) == {i \in DOMAIN rules : rules[i].path = path}

(* The policy of the last rule for exactly this path. *)
LastPolicy(rules, path) ==
    IF Hits(rules, path) = {} THEN NoDecision ELSE rules[Max(Hits(rules, path))].policy

(* The first of the rules that are meant gets the policy; if there is none, a rule is added. *)
PutFirst(rules, hits, path, policy) ==
    IF hits = {} THEN Append(rules, Rule(path, policy)) ELSE SetPolicy(rules, Min(hits), policy)

(* canonical_key: rank, then the names, with the flow of `p/_` left out. *)
CanonicalKey(path) ==
    LET at(i) == IF i <= Len(path) /\ ~(i = 2 /\ AnyFlow(path)) THEN path[i] ELSE -1
        rank  == CASE path = <<>> -> 0 [] AnyFlow(path) -> 1 [] OTHER -> Len(path) + 1
    IN <<rank, at(1), at(2), at(3)>>

KeyBefore(a, b) ==
    \E i \in 1..4 : a[i] < b[i] /\ \A j \in 1..i-1 : a[j] = b[j]

(* The rules that come before the i-th: sort_by_key is stable, rules with one key keep
   their order. *)
Ahead(rules, i) ==
    LET key(k) == CanonicalKey(rules[k].path)
    IN {j \in DOMAIN rules : KeyBefore(key(j), key(i)) \/ (key(j) = key(i) /\ j < i)}

SortRules(rules) ==
    [n \in DOMAIN rules |-> rules[CHOOSE i \in DOMAIN rules : Cardinality(Ahead(rules, i)) = n - 1]]

SpelledHits(rules, given) == IF given.plain THEN Hits(rules, given.names) ELSE {}

(* A file with comments or blank lines keeps its lines: a rule is the one that is
   meant only if it is spelled like the given path, and a new line is set off by a
   blank one.  Other files are parsed, changed, sorted and written anew. *)
upsert_preserving_lines(file, given, policy) ==
    [file EXCEPT !.rules = PutFirst(@, SpelledHits(@, given), given.names, policy)]

upsert_rule(file, given, policy) ==
    [file EXCEPT !.rules = SortRules(PutFirst(@, Hits(@, given.names), given.names, policy))]

(* A line that does not parse stops the edit; lines after the one that is meant are
   not looked at in a file with comments, and the given path is not looked at either. *)
UpsertOk(file, given) ==
    LET bad  == {i \in DOMAIN file.rules : Len(file.rules[i].path) > 3}
    IN IF file.commented THEN \A b \in bad : \E h \in SpelledHits(file.rules, given) : h < b
       ELSE bad = {} /\ parse_path_ok(given)

upsert_policy(file, given, policy) ==
    IF file.commented THEN upsert_preserving_lines(file, given, policy) ELSE upsert_rule(file, given, policy)

=============================================================================
