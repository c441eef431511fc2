------------------------------ MODULE Detection ------------------------------
(***************************************************************************)
(* Finding the servers of another panel's node on this host                *)
(* (internal/migrationdetect/detector.go): the places to look in, one look *)
(* at each, in whatever order Go's map gives them, and the choice.         *)
(*                                                                         *)
(* A look at a place finds some of the servers, their bytes, and whether   *)
(* the place itself can be read; places are looked at one after the other, *)
(* and what is on the host changes meanwhile, so a look may find anything. *)
(***************************************************************************)
EXTENDS Naturals, Sequences, FiniteSets, SequencesExt

CONSTANTS
  Places,       \* directories of the host
  Conventional, \* those every installation uses
  Servers,      \* the UUIDs a request may ask for
  MaxBytes      \* bound on the size found

ASSUME DetectionAssumption == Conventional \subseteq Places /\ MaxBytes \in Nat

VARIABLES
  asked,     \* the UUIDs of the request
  unseen,    \* the candidates yet to be looked at, each with its source
  results,   \* what was found, in the order of the looks
  answer     \* Result, or the step of the request

detectVars == <<asked, unseen, results, answer>>

Sources == {"configured_path", "daemon_config", "systemd_daemon_config", "conventional_path"}
Candidates == [path : Places, source : Sources, matched : SUBSET Servers,
               bytes : 0..MaxBytes, readable : BOOLEAN]
Steps == {"idle", "looking", "answered"}
NoAnswer(step) == [step |-> step, detected |-> FALSE, path |-> {}, matched |-> {}, missing |-> asked]

DetectTypeOK ==
  /\ asked \subseteq Servers
  /\ \A p \in DOMAIN unseen : p \in Places /\ unseen[p] \in Sources
  /\ results \in Seq(Candidates)
  /\ answer.step \in Steps /\ answer.detected \in BOOLEAN
  /\ answer.path \subseteq Places
  /\ answer.matched \subseteq Servers /\ answer.missing \subseteq Servers

DetectInit ==
  /\ asked = {}
  /\ unseen = [p \in {} |-> "conventional_path"]
  /\ results = <<>>
  /\ answer = NoAnswer("idle")

-----------------------------------------------------------------------------
\* sourceEvidenceScore
SourceEvidenceScore(source) ==
  CASE source \in {"daemon_config", "systemd_daemon_config"} -> 4
    [] source = "configured_path" -> 3
    [] source = "conventional_path" -> 1

\* A slip: a place with data wins over one that has more of the servers.
DataFirst(l, r) ==
  IF (l.bytes > 0) # (r.bytes > 0) THEN l.bytes > 0
  ELSE Cardinality(l.matched) > Cardinality(r.matched)

\* The comparison handed to sort.SliceStable.  Confidence follows from the matches.
Less(l, r) ==
  LET left == Cardinality(l.matched) right == Cardinality(r.matched)
      leftScore == SourceEvidenceScore(l.source) rightScore == SourceEvidenceScore(r.source)
  IN
  \/ left > right
  \/ left = right /\ l.bytes > 0 /\ r.bytes = 0
  \/ /\ left = right /\ (l.bytes > 0 <=> r.bytes > 0)
     /\ \/ leftScore > rightScore
        \/ leftScore = rightScore /\ l.bytes > r.bytes
        \/ leftScore = rightScore /\ l.bytes = r.bytes /\ l.readable /\ ~r.readable

\* sort.SliceStable(results, Less)
Insert(sorted, r) ==
  LET before == {i \in 1..Len(sorted) : ~Less(r, sorted[i])}
      n == IF before = {} THEN 0 ELSE CHOOSE i \in before : \A j \in before : j <= i
  IN InsertAt(sorted, n + 1, r)
Sorted(s) == FoldLeft(Insert, <<>>, s)

\* collectCandidates: of several sources of one path the first counts.
CollectCandidates(configured, daemon, systemd) ==
  [p \in configured \cup daemon \cup systemd \cup Conventional |->
     IF p \in configured THEN "configured_path"
     ELSE IF p \in daemon THEN "daemon_config"
     ELSE IF p \in systemd THEN "systemd_daemon_config"
     ELSE "conventional_path"]

Detect(uuids, configured, daemon, systemd) ==
  /\ answer.step = "idle"
  /\ asked' = uuids
  /\ unseen' = CollectCandidates(configured, daemon, systemd)
  /\ results' = <<>>
  /\ answer' = [NoAnswer("looking") EXCEPT !.missing = uuids]

\* inspectCandidate
InspectCandidate(p) ==
  /\ answer.step = "looking" /\ p \in DOMAIN unseen
  /\ unseen' = [q \in DOMAIN unseen \ {p} |-> unseen[q]]
  /\ \E matched \in SUBSET asked, bytes \in 0..MaxBytes, readable \in BOOLEAN :
       /\ matched = {} => bytes = 0
       /\ results' = IF matched # {} \/ readable
                     THEN Append(results, [path |-> p, source |-> unseen[p], matched |-> matched,
                                           bytes |-> bytes, readable |-> readable])
                     ELSE results
  /\ UNCHANGED <<asked, answer>>

Choose(best) ==
  IF best.matched = {} THEN NoAnswer("answered")
  ELSE [step |-> "answered", detected |-> TRUE, path |-> {best.path}, matched |-> best.matched,
        missing |-> asked \ best.matched]

Answer ==
  /\ answer.step = "looking" /\ DOMAIN unseen = {}
  /\ answer' = IF results = <<>> THEN NoAnswer("answered") ELSE Choose(Head(Sorted(results)))
  /\ UNCHANGED <<asked, unseen, results>>

\* The handler writes the answer, and nothing of it is kept.
Return ==
  /\ answer.step = "answered"
  /\ asked' = {} /\ results' = <<>> /\ UNCHANGED unseen
  /\ answer' = [answer EXCEPT !.step = "idle", !.detected = FALSE, !.path = {}, !.matched = {}, !.missing = {}]

DetectNext ==
  \/ \E uuids \in SUBSET Servers, configured, daemon, systemd \in SUBSET Places :
       /\ Cardinality(configured) <= 1
       /\ Detect(uuids, configured, daemon, systemd)
  \/ \E p \in Places : InspectCandidate(p)
  \/ Answer \/ Return

DetectSpec == DetectInit /\ [][DetectNext]_detectVars

-----------------------------------------------------------------------------
Found == {results[i] : i \in 1..Len(results)}

\* Whatever order the places were looked at in, the answer is a place no other
\* beats: one that has as many of the servers as any, with data if one of those
\* has, and it accounts for every server asked for.  No place is answered when
\* none has a server (detector.go:51, :110).
DetectionBest ==
  answer.step = "answered" =>
    /\ answer.detected <=> \E r \in Found : r.matched # {}
    /\ answer.detected =>
         \E best \in Found :
           /\ answer.path = {best.path} /\ answer.matched = best.matched
           /\ \A r \in Found : /\ Cardinality(r.matched) <= Cardinality(best.matched)
                               /\ Cardinality(r.matched) = Cardinality(best.matched) /\ r.bytes > 0
                                    => best.bytes > 0
                               /\ ~Less(r, best)
    /\ answer.matched \cup answer.missing = asked
    /\ answer.matched \cap answer.missing = {}
=============================================================================
