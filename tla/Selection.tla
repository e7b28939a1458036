----------------------------- MODULE Selection -----------------------------
(***************************************************************************)
(* selectForInjection and resolveConflicts of internal/inject/select.go:   *)
(* which of the memories recalled for a turn are worth injecting.  The two *)
(* loops are a state machine that takes one step per candidate and one per *)
(* pair, so that what they maintain can be stated and proved as an         *)
(* invariant.                                                              *)
(*                                                                         *)
(* A memory is an element of Memories and its fields are constants; a word *)
(* is whatever Words[m] is made of.  The scores only order the candidates  *)
(* and cut them at the gate, so the input is the candidates best first and *)
(* how many of them clear the gate.                                        *)
(***************************************************************************)
EXTENDS Integers, Sequences, FiniteSets

CONSTANTS
    Memories,
    NoConcept,   \* the normalized concept of a memory that has none
    NoInstant,   \* a created_at that is not RFC3339
    Concept,     \* Concept[m]: normalizeConcept of its concept
    Words,       \* Words[m]: wordSet of its content
    State,       \* State[m]: its lifecycle state
    Trust,       \* Trust[m]: its reliability level
    Stale,       \* the memories MuninnDB annotates as stale
    Instant,     \* Instant[m]: its created_at as an instant
    Lexical,     \* Lexical[m]: the rank of its created_at as a string
    ConflictsWith, \* ConflictsWith[m]: the memories m is annotated to contradict
    MaxRecalled  \* bound: candidates in one turn

ASSUME SelectionAssumption ==
    /\ Stale \subseteq Memories
    /\ Instant \in [Memories -> Int \cup {NoInstant}]
    /\ NoInstant \notin Int
    /\ Lexical \in [Memories -> Int]
    /\ ConflictsWith \in [Memories -> SUBSET Memories]
    /\ \A m \in Memories : IsFiniteSet(Words[m])
    /\ MaxRecalled \in Nat

VARIABLES
    merged,      \* the candidates, best first
    passing,     \* how many of them clear the gate
    scanned,     \* how many of them the scan has dealt with
    kept,
    keptTokens,
    conceptIdx,  \* where the memory of each concept is kept, 0 if none is
    drop,        \* kept positions that lost a contradiction
    left, right, \* the pair of kept positions resolveConflicts looks at
    phase,
    nearDups     \* history: candidates skipped as near-duplicates

scanVars    == <<scanned, kept, keptTokens, conceptIdx, nearDups>>
resolveVars == <<drop, left, right>>
input       == <<merged, passing>>
vars == <<input, scanVars, resolveVars, phase>>

\* Fit to inject: not retired, not abandoned, not flagged unreliable.
Injectable == {m \in Memories : State[m] \notin {"archived", "cancelled"} /\ Trust[m] # "untrusted"}

Concepts == {Concept[m] : m \in Memories} \ {NoConcept}

\* What mergeMemories hands over: each memory at most once.
Recallable ==
    UNION {{s \in [1 .. n -> Memories] : \A i, j \in 1 .. n : s[i] = s[j] => i = j} :
           n \in 0 .. MaxRecalled}

Init ==
    /\ merged \in Recallable
    /\ passing \in 0 .. Len(merged)
    /\ scanned = 0
    /\ kept = << >>
    /\ keptTokens = << >>
    /\ conceptIdx = [c \in Concepts |-> 0]
    /\ drop = {}
    /\ left = 1
    /\ right = 2
    /\ phase = "scan"
    /\ nearDups = {}
-----------------------------------------------------------------------------
(***************************************************************************)
(* Which of two statements of a fact is current, and what counts as a      *)
(* restatement                                                             *)
(***************************************************************************)

\* The later created_at, as an instant when both parse.
NewerThan(a, b) ==
    IF Instant[a] # NoInstant /\ Instant[b] # NoInstant
    THEN Instant[a] > Instant[b]
    ELSE Lexical[a] > Lexical[b]

Supersedes(a, b) ==
    IF a \in Stale <=> b \in Stale THEN NewerThan(a, b) ELSE a \notin Stale

OneSided(a, b) == b \in ConflictsWith[a]   \* mutant

Conflicts(a, b) == b \in ConflictsWith[a] \/ a \in ConflictsWith[b]

\* Jaccard similarity of two word sets of at least dupTokenOverlap, 4/5.
Overlaps(v, w) ==
    v # {} /\ w # {} /\ 5 * Cardinality(v \cap w) >= 4 * Cardinality(v \cup w)

IsNearDuplicate(m) == \E i \in 1 .. Len(keptTokens) : Overlaps(Words[m], keptTokens[i])
-----------------------------------------------------------------------------
(***************************************************************************)
(* selectForInjection                                                      *)
(***************************************************************************)

Scanning == phase = "scan" /\ scanned < passing

Candidate == merged[scanned + 1]

\* A memory of the candidate's concept is already kept.
ConceptKept == Concept[Candidate] # NoConcept /\ conceptIdx[Concept[Candidate]] # 0

\* The candidate is dead or untrusted.
SkipUnfit ==
    /\ Scanning
    /\ Candidate \notin Injectable
    /\ scanned' = scanned + 1
    /\ UNCHANGED <<input, kept, keptTokens, conceptIdx, nearDups, resolveVars, phase>>

NeverReplace == FALSE   \* mutant
CandidateIsCurrent == Supersedes(Candidate, kept[conceptIdx[Concept[Candidate]]])

TokensOfCandidate ==
    [keptTokens EXCEPT ![conceptIdx[Concept[Candidate]]] = Words[Candidate]]

\* The candidate restates a kept concept: the current statement takes, or
\* keeps, the position.
SameConcept ==
    /\ Scanning
    /\ Candidate \in Injectable
    /\ ConceptKept
    /\ scanned' = scanned + 1
    /\ \/ /\ CandidateIsCurrent
          /\ kept' = [kept EXCEPT ![conceptIdx[Concept[Candidate]]] = Candidate]
          /\ keptTokens' = TokensOfCandidate
       \/ /\ ~CandidateIsCurrent
          /\ UNCHANGED <<kept, keptTokens>>
    /\ UNCHANGED <<input, conceptIdx, nearDups, resolveVars, phase>>

SkipNearDuplicate ==
    /\ Scanning
    /\ Candidate \in Injectable
    /\ ~ConceptKept
    /\ IsNearDuplicate(Candidate)
    /\ scanned' = scanned + 1
    /\ nearDups' = nearDups \cup {Candidate}
    /\ UNCHANGED <<input, kept, keptTokens, conceptIdx, resolveVars, phase>>

IndexUnset == conceptIdx   \* mutant
IndexCandidate ==
    IF Concept[Candidate] = NoConcept THEN conceptIdx
    ELSE [conceptIdx EXCEPT ![Concept[Candidate]] = Len(kept) + 1]

Keep ==
    /\ Scanning
    /\ Candidate \in Injectable
    /\ ~ConceptKept
    /\ ~IsNearDuplicate(Candidate)
    /\ scanned' = scanned + 1
    /\ kept' = Append(kept, Candidate)
    /\ keptTokens' = Append(keptTokens, Words[Candidate])
    /\ conceptIdx' = IndexCandidate
    /\ UNCHANGED <<input, nearDups, resolveVars, phase>>

\* The first candidate below the gate, or the last one, ends the scan.
EndScan ==
    /\ phase = "scan"
    /\ scanned = passing
    /\ phase' = "resolve"
    /\ UNCHANGED <<input, scanVars, resolveVars>>
-----------------------------------------------------------------------------
(***************************************************************************)
(* resolveConflicts                                                        *)
(***************************************************************************)

Contradicted(i, j) == i \notin drop /\ j \notin drop /\ Conflicts(kept[i], kept[j])

Loser(i, j) == IF Supersedes(kept[j], kept[i]) THEN i ELSE j

\* The next pair, with the right position running faster.
NextPair ==
    IF right < Len(kept)
    THEN left' = left /\ right' = right + 1
    ELSE left' = left + 1 /\ right' = left + 2

ResolvePair ==
    /\ phase = "resolve"
    /\ right <= Len(kept)
    /\ drop' = IF Contradicted(left, right) THEN drop \cup {Loser(left, right)} ELSE drop
    /\ NextPair
    /\ UNCHANGED <<input, scanVars, phase>>

EndResolve ==
    /\ phase = "resolve"
    /\ right > Len(kept)
    /\ phase' = "done"
    /\ UNCHANGED <<input, scanVars, resolveVars>>

Done == phase = "done" /\ UNCHANGED vars

Next ==
    \/ SkipUnfit \/ SameConcept \/ SkipNearDuplicate \/ Keep \/ EndScan
    \/ ResolvePair \/ EndResolve
    \/ Done

Spec == Init /\ [][Next]_vars
-----------------------------------------------------------------------------
(***************************************************************************)
(* Properties                                                              *)
(***************************************************************************)

Positions == 1 .. Len(kept)

\* The positions of the memories that are injected.
Survivors == Positions \ drop

\* The candidates the scan has looked at and found fit.
Considered == {merged[i] : i \in 1 .. scanned} \cap Injectable

TypeOK ==
    /\ merged \in Seq(Memories)
    /\ passing \in 0 .. Len(merged)
    /\ scanned \in 0 .. passing
    /\ kept \in Seq(Memories)
    /\ keptTokens \in Seq({Words[m] : m \in Memories})
    /\ Len(keptTokens) = Len(kept)
    /\ conceptIdx \in [Concepts -> 0 .. Len(kept)]
    /\ drop \subseteq Positions
    /\ left \in Nat \ {0} /\ right \in Nat /\ left < right
    /\ phase \in {"scan", "resolve", "done"}
    /\ nearDups \subseteq Memories

\* The index and the word sets follow every replacement: a concept is indexed
\* exactly where its only kept memory is, and the words a candidate is compared
\* with are those of the memory that is kept now, not of the one it replaced.
IndexExact ==
    /\ \A c \in Concepts, i \in Positions : Concept[kept[i]] = c <=> conceptIdx[c] = i
    /\ \A i \in Positions : keptTokens[i] = Words[kept[i]]

\* One concept, one fact: no two injected memories share a concept, none is
\* unfit, and none came from below the gate.
OneFactPerConcept ==
    /\ \A i, j \in Positions : i # j /\ Concept[kept[i]] = Concept[kept[j]]
                                 => Concept[kept[i]] = NoConcept
    /\ \A i \in Positions : kept[i] \in Considered

\* No two injected memories contradict each other, whichever of them carries
\* the annotation and however many contradictions cross.
NoContradiction ==
    phase = "done" => \A i, j \in Survivors : i # j => ~Conflicts(kept[i], kept[j])

\* Removing duplicates and contradictions never empties a turn that had
\* something fit to inject.
SomethingSurvives == phase = "done" /\ Considered # {} => Survivors # {}

\* A memory is only lost to one that says the same, says it better or denies it:
\* every fit candidate is kept, near-duplicates something, or is of the concept
\* of a kept memory that it does not supersede.
CurrentStatementKept ==
    \A m \in Considered \ nearDups :
        \E i \in Positions :
            \/ kept[i] = m
            \/ /\ Concept[kept[i]] = Concept[m]
               /\ Concept[m] # NoConcept
               /\ ~Supersedes(m, kept[i])

\* select.go: for same-concept duplicates the fresher memory wins.
FresherWins ==
    phase = "done" =>
        \A m \in Considered, i \in Positions :
            Concept[m] = Concept[kept[i]] /\ Concept[m] # NoConcept => ~Supersedes(m, kept[i])
=============================================================================
