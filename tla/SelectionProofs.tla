-------------------------- MODULE SelectionProofs --------------------------
(***************************************************************************)
(* Theorems about Selection, for every vault, every order of candidates    *)
(* and every gate: what the scan maintains, and what the two loops leave.  *)
(***************************************************************************)
EXTENDS Selection, SequenceTheorems, TLAPS

WordSets == {Words[m] : m \in Memories}

\* A candidate that is scanned is a memory, and its concept may be indexed.
LEMMA CandidateType ==
    ASSUME TypeOK, Scanning
    PROVE  /\ Candidate \in Memories
           /\ Words[Candidate] \in WordSets
           /\ scanned + 1 \in 0 .. passing
           /\ scanned + 1 \in 1 .. Len(merged)
           /\ Concept[Candidate] # NoConcept => Concept[Candidate] \in Concepts
<1>1. /\ scanned \in Nat /\ passing \in Nat /\ Len(merged) \in Nat
      /\ passing <= Len(merged) /\ scanned < passing
  BY LenProperties DEF TypeOK, Scanning
<1>2. scanned + 1 \in 0 .. passing /\ scanned + 1 \in 1 .. Len(merged)
  BY <1>1
<1>3. Candidate \in Memories
  BY <1>2, ElementOfSeq DEF TypeOK, Candidate
<1> QED BY <1>2, <1>3 DEF Concepts, WordSets

\* A concept that is kept is kept at one of the positions.
LEMMA KeptPosition ==
    ASSUME TypeOK, Scanning, ConceptKept
    PROVE  /\ conceptIdx[Concept[Candidate]] \in Positions
           /\ Concept[Candidate] \in Concepts
<1>1. Concept[Candidate] \in Concepts /\ conceptIdx[Concept[Candidate]] # 0
  BY CandidateType DEF ConceptKept
<1>2. conceptIdx[Concept[Candidate]] \in 0 .. Len(kept) /\ Len(kept) \in Nat
  BY <1>1, LenProperties DEF TypeOK
<1> QED BY <1>1, <1>2 DEF Positions

\* Keep adds the candidate behind the memories that are kept already.
LEMMA KeepExtends ==
    ASSUME TypeOK, Keep
    PROVE  /\ kept' \in Seq(Memories) /\ keptTokens' \in Seq(WordSets)
           /\ Len(kept) \in Nat
           /\ Len(kept') = Len(kept) + 1 /\ Len(keptTokens') = Len(kept) + 1
           /\ kept'[Len(kept) + 1] = Candidate
           /\ keptTokens'[Len(kept) + 1] = Words[Candidate]
           /\ \A i \in Positions : kept'[i] = kept[i] /\ keptTokens'[i] = keptTokens[i]
<1> DEFINE c == Candidate
           w == Words[Candidate]
<1>1. /\ c \in Memories /\ w \in WordSets
      /\ kept \in Seq(Memories) /\ keptTokens \in Seq(WordSets)
      /\ Len(keptTokens) = Len(kept) /\ Len(kept) \in Nat
  BY CandidateType, LenProperties DEF Keep, TypeOK, WordSets
<1>2. kept' = Append(kept, c) /\ keptTokens' = Append(keptTokens, w)
  BY DEF Keep
<1> HIDE DEF c, w
<1>3. /\ kept' \in Seq(Memories) /\ Len(kept') = Len(kept) + 1
      /\ kept'[Len(kept) + 1] = c
      /\ \A i \in 1 .. Len(kept) : kept'[i] = kept[i]
  BY <1>1, <1>2, AppendProperties
<1>4. /\ keptTokens' \in Seq(WordSets) /\ Len(keptTokens') = Len(kept) + 1
      /\ keptTokens'[Len(kept) + 1] = w
      /\ \A i \in 1 .. Len(kept) : keptTokens'[i] = keptTokens[i]
  BY <1>1, <1>2, AppendProperties
<1> QED BY <1>1, <1>3, <1>4 DEF c, w, Positions

\* A replacement puts the candidate at the position of its concept and leaves
\* the other positions alone.
LEMMA ReplaceKeeps ==
    ASSUME TypeOK, Scanning, ConceptKept,
           kept' = [kept EXCEPT ![conceptIdx[Concept[Candidate]]] = Candidate],
           keptTokens' = TokensOfCandidate
    PROVE  /\ kept' \in Seq(Memories) /\ keptTokens' \in Seq(WordSets)
           /\ Len(kept') = Len(kept) /\ Len(keptTokens') = Len(kept)
           /\ \A i \in Positions :
                 /\ kept'[i] = IF i = conceptIdx[Concept[Candidate]]
                               THEN Candidate ELSE kept[i]
                 /\ keptTokens'[i] = IF i = conceptIdx[Concept[Candidate]]
                                     THEN Words[Candidate] ELSE keptTokens[i]
<1> DEFINE c == Candidate
           w == Words[Candidate]
           k == conceptIdx[Concept[Candidate]]
<1>1. /\ c \in Memories /\ w \in WordSets /\ k \in 1 .. Len(kept)
      /\ kept \in Seq(Memories) /\ keptTokens \in Seq(WordSets)
      /\ Len(keptTokens) = Len(kept)
  BY CandidateType, KeptPosition DEF TypeOK, WordSets, Positions
<1>2. kept' = [kept EXCEPT ![k] = c] /\ keptTokens' = [keptTokens EXCEPT ![k] = w]
  BY DEF TokensOfCandidate
<1> HIDE DEF c, w, k
<1>3. /\ kept' \in Seq(Memories) /\ Len(kept') = Len(kept)
      /\ \A i \in 1 .. Len(kept) : kept'[i] = IF i = k THEN c ELSE kept[i]
  <2>1. /\ [kept EXCEPT ![k] = c] \in Seq(Memories)
        /\ Len([kept EXCEPT ![k] = c]) = Len(kept)
        /\ \A i \in 1 .. Len(kept) : [kept EXCEPT ![k] = c][i] = IF i = k THEN c ELSE kept[i]
    BY <1>1, ExceptSeq
  <2> QED BY <1>2, <2>1
<1>4. /\ keptTokens' \in Seq(WordSets) /\ Len(keptTokens') = Len(kept)
      /\ \A i \in 1 .. Len(kept) : keptTokens'[i] = IF i = k THEN w ELSE keptTokens[i]
  <2>1. /\ [keptTokens EXCEPT ![k] = w] \in Seq(WordSets)
        /\ Len([keptTokens EXCEPT ![k] = w]) = Len(keptTokens)
        /\ \A i \in 1 .. Len(keptTokens) :
              [keptTokens EXCEPT ![k] = w][i] = IF i = k THEN w ELSE keptTokens[i]
    BY <1>1, ExceptSeq
  <2> QED BY <1>1, <1>2, <2>1
<1> QED BY <1>3, <1>4 DEF c, w, k, Positions

\* The state always has its type: in particular every index of conceptIdx is a
\* position of kept.
THEOREM TypeCorrect == Spec => []TypeOK
<1>1. Init => TypeOK
  <2> SUFFICES ASSUME Init PROVE TypeOK
    OBVIOUS
  <2>1. PICK n \in 0 .. MaxRecalled : merged \in [1 .. n -> Memories]
    BY DEF Init, Recallable
  <2>2. n \in Nat
    BY <2>1, SelectionAssumption
  <2>3. merged \in Seq(Memories)
    BY <2>1, <2>2, SeqDef
  <2>4. kept = << >> /\ kept \in Seq(Memories) /\ Len(kept) = 0
    BY EmptySeq DEF Init
  <2>5. keptTokens \in Seq({Words[m] : m \in Memories}) /\ Len(keptTokens) = 0
    BY EmptySeq DEF Init
  <2>6. conceptIdx \in [Concepts -> 0 .. Len(kept)]
    BY <2>4 DEF Init
  <2>7. scanned \in 0 .. passing /\ passing \in 0 .. Len(merged)
    BY <2>3, LenProperties DEF Init
  <2> QED BY <2>3, <2>4, <2>5, <2>6, <2>7 DEF Init, TypeOK, Positions
<1>2. TypeOK /\ [Next]_vars => TypeOK'
  <2> SUFFICES ASSUME TypeOK, [Next]_vars PROVE TypeOK'
    OBVIOUS
  <2>1. CASE SkipUnfit
    BY <2>1, CandidateType DEF SkipUnfit, TypeOK, Positions, input, resolveVars
  <2>2. CASE SkipNearDuplicate
    BY <2>2, CandidateType DEF SkipNearDuplicate, TypeOK, Positions, input, resolveVars
  <2>3. CASE SameConcept
    <3>1. /\ kept' \in Seq(Memories) /\ Len(kept') = Len(kept)
          /\ keptTokens' \in Seq({Words[m] : m \in Memories}) /\ Len(keptTokens') = Len(kept)
      <4>1. CASE CandidateIsCurrent
        BY <2>3, <4>1, ReplaceKeeps DEF SameConcept, WordSets
      <4>2. CASE ~CandidateIsCurrent
        BY <2>3, <4>2 DEF SameConcept, TypeOK
      <4> QED BY <4>1, <4>2
    <3>2. scanned' \in 0 .. passing
      BY <2>3, CandidateType DEF SameConcept
    <3> QED BY <2>3, <3>1, <3>2 DEF SameConcept, TypeOK, Positions, input, resolveVars
  <2>4. CASE Keep
    <3>1. scanned' \in 0 .. passing
      BY <2>4, CandidateType DEF Keep
    <3>2. Len(kept) \in Nat /\ Len(kept') = Len(kept) + 1
      BY <2>4, KeepExtends
    <3>3. Concept[Candidate] # NoConcept => Concept[Candidate] \in Concepts
      BY <2>4, CandidateType DEF Keep
    <3>4. conceptIdx' \in [Concepts -> 0 .. Len(kept')]
      BY <2>4, <3>2, <3>3 DEF Keep, IndexCandidate, TypeOK
    <3>5. drop' \subseteq 1 .. Len(kept')
      BY <2>4, <3>2 DEF Keep, TypeOK, Positions, resolveVars
    <3> QED BY <2>4, <3>1, <3>4, <3>5, KeepExtends
            DEF Keep, TypeOK, Positions, input, resolveVars, WordSets
  <2>5. CASE ResolvePair
    <3>1. /\ left \in Nat \ {0} /\ right \in Nat /\ left < right
          /\ Len(kept) \in Nat /\ right <= Len(kept)
      BY <2>5, LenProperties DEF TypeOK, ResolvePair
    <3>2. left' \in Nat \ {0} /\ right' \in Nat /\ left' < right'
      BY <2>5, <3>1 DEF ResolvePair, NextPair
    <3>3. drop' \subseteq Positions
      BY <2>5, <3>1 DEF ResolvePair, Loser, TypeOK, Positions
    <3> QED BY <2>5, <3>2, <3>3 DEF ResolvePair, TypeOK, Positions, input, scanVars
  <2>6. CASE EndScan \/ EndResolve \/ Done \/ UNCHANGED vars
    BY <2>6 DEF EndScan, EndResolve, Done, TypeOK, Positions, vars, input, scanVars, resolveVars
  <2> QED BY <2>1, <2>2, <2>3, <2>4, <2>5, <2>6 DEF Next
<1> QED BY <1>1, <1>2, PTL DEF Spec
-----------------------------------------------------------------------------
(***************************************************************************)
(* The scan: the index, the words and the positions                        *)
(***************************************************************************)

\* What the scan maintains: IndexExact, and that every kept memory is a
\* candidate that was considered, from which OneFactPerConcept follows.
ScanInv ==
    /\ IndexExact
    /\ \A i \in Positions : kept[i] \in Considered
    /\ Considered # {} => Positions # {}

\* The candidate is considered by the step that scans it, if it is fit.
LEMMA ConsideredGrows ==
    ASSUME TypeOK, Scanning, UNCHANGED input, scanned' = scanned + 1
    PROVE  Considered' = Considered \cup ({Candidate} \cap Injectable)
<1>1. scanned \in Nat
  BY DEF TypeOK
<1>2. 1 .. scanned + 1 = 1 .. scanned \cup {scanned + 1}
  BY <1>1
<1>3. merged' = merged
  BY DEF input
<1> QED BY <1>2, <1>3 DEF Considered, Candidate

\* Replacing a statement by a current one keeps the index exact.
LEMMA ReplaceKeepsIndex ==
    ASSUME TypeOK, ScanInv, SameConcept
    PROVE  IndexExact' /\ \A i \in Positions' : kept'[i] \in Considered'
<1>1. Considered' = Considered \cup {Candidate}
  BY ConsideredGrows DEF SameConcept
<1>2. conceptIdx' = conceptIdx
  BY DEF SameConcept
<1>3. CASE CandidateIsCurrent
  <2> DEFINE k == conceptIdx[Concept[Candidate]]
  <2>1. k \in Positions /\ Concept[Candidate] \in Concepts
    BY KeptPosition DEF SameConcept
  <2>2. /\ Positions' = Positions
        /\ \A i \in Positions :
              /\ kept'[i] = IF i = k THEN Candidate ELSE kept[i]
              /\ keptTokens'[i] = IF i = k THEN Words[Candidate] ELSE keptTokens[i]
    BY <1>3, ReplaceKeeps DEF SameConcept, Positions
  <2>3. Concept[kept[k]] = Concept[Candidate]
    BY <2>1 DEF ScanInv, IndexExact
  <2> HIDE DEF k
  <2>4. \A i \in Positions : Concept[kept'[i]] = Concept[kept[i]]
    BY <2>2, <2>3
  <2>5. IndexExact'
    BY <1>2, <2>2, <2>4 DEF ScanInv, IndexExact
  <2>6. \A i \in Positions' : kept'[i] \in Considered'
    BY <1>1, <2>2 DEF ScanInv
  <2> QED BY <2>5, <2>6
<1>4. CASE ~CandidateIsCurrent
  <2>1. kept' = kept /\ keptTokens' = keptTokens
    BY <1>4 DEF SameConcept
  <2> QED BY <1>1, <1>2, <2>1 DEF ScanInv, IndexExact, Positions
<1> QED BY <1>3, <1>4

\* Keeping a memory indexes its concept, which no kept memory had.
LEMMA KeepKeepsIndex ==
    ASSUME TypeOK, ScanInv, Keep
    PROVE  IndexExact' /\ \A i \in Positions' : kept'[i] \in Considered'
<1> DEFINE n == Len(kept)
<1>1. Considered' = Considered \cup {Candidate}
  BY ConsideredGrows DEF Keep
<1>2. /\ n \in Nat /\ Positions = 1 .. n /\ Positions' = 1 .. n + 1
      /\ kept'[n + 1] = Candidate /\ keptTokens'[n + 1] = Words[Candidate]
      /\ \A i \in 1 .. n : kept'[i] = kept[i] /\ keptTokens'[i] = keptTokens[i]
  BY KeepExtends DEF Positions
<1>3. /\ \A c \in Concepts : conceptIdx[c] \in 0 .. n
      /\ conceptIdx \in [Concepts -> 0 .. n]
  BY DEF TypeOK
<1>4. \A c \in Concepts : \A i \in 1 .. n : Concept[kept[i]] = c <=> conceptIdx[c] = i
  BY <1>2 DEF ScanInv, IndexExact
<1>5. conceptIdx' = IndexCandidate /\ Concept[Candidate] \in Concepts \cup {NoConcept}
  BY CandidateType DEF Keep
<1>6. Concept[Candidate] # NoConcept => conceptIdx[Concept[Candidate]] = 0
  BY DEF Keep, ConceptKept
<1>7. NoConcept \notin Concepts
  BY DEF Concepts
<1> HIDE DEF n
<1>8. \A c \in Concepts :
         conceptIdx'[c] = IF c = Concept[Candidate] THEN n + 1 ELSE conceptIdx[c]
  BY <1>3, <1>5, <1>7 DEF IndexCandidate, n
<1>9. ASSUME NEW c \in Concepts, NEW i \in 1 .. n + 1
      PROVE  Concept[kept'[i]] = c <=> conceptIdx'[c] = i
  <2>1. CASE i = n + 1
    BY <1>2, <1>3, <1>8, <2>1
  <2>2. CASE i \in 1 .. n /\ c # Concept[Candidate]
    BY <1>2, <1>4, <1>8, <2>2
  <2>3. CASE i \in 1 .. n /\ c = Concept[Candidate]
    <3>1. conceptIdx[c] = 0 /\ conceptIdx'[c] = n + 1
      BY <1>6, <1>7, <1>8, <2>3
    <3>2. Concept[kept'[i]] # c
      BY <1>2, <1>4, <2>3, <3>1
    <3> QED BY <1>2, <2>3, <3>1, <3>2
  <2>4. i = n + 1 \/ i \in 1 .. n
    BY <1>2
  <2> QED BY <2>1, <2>2, <2>3, <2>4
<1>10. \A i \in 1 .. n + 1 : keptTokens'[i] = Words[kept'[i]]
  <2> SUFFICES ASSUME NEW i \in 1 .. n + 1 PROVE keptTokens'[i] = Words[kept'[i]]
    OBVIOUS
  <2>1. CASE i \in 1 .. n
    BY <1>2, <2>1 DEF ScanInv, IndexExact
  <2>2. CASE i = n + 1
    BY <1>2, <2>2
  <2> QED BY <1>2, <2>1, <2>2
<1>11. \A i \in 1 .. n + 1 : kept'[i] \in Considered'
  <2> SUFFICES ASSUME NEW i \in 1 .. n + 1 PROVE kept'[i] \in Considered'
    OBVIOUS
  <2>1. CASE i \in 1 .. n
    BY <1>1, <1>2, <2>1 DEF ScanInv
  <2>2. CASE i = n + 1
    BY <1>1, <1>2, <2>2
  <2> QED BY <1>2, <2>1, <2>2
<1>12. IndexExact'
  BY <1>2, <1>9, <1>10 DEF IndexExact, Concepts
<1> QED BY <1>2, <1>11, <1>12

\* Every step maintains what the scan maintains.
LEMMA ScanStep ==
    ASSUME TypeOK, ScanInv, [Next]_vars
    PROVE  ScanInv'
<1>1. CASE SkipUnfit
  <2>1. Considered' = Considered
    BY <1>1, ConsideredGrows DEF SkipUnfit
  <2> QED BY <1>1, <2>1 DEF SkipUnfit, ScanInv, IndexExact, Positions
<1>2. CASE SkipNearDuplicate
  <2>1. Considered' = Considered \cup {Candidate}
    BY <1>2, ConsideredGrows DEF SkipNearDuplicate
  <2>2. kept' = kept /\ keptTokens' = keptTokens /\ conceptIdx' = conceptIdx
    BY <1>2 DEF SkipNearDuplicate
  <2>3. Positions # {}
    BY <1>2 DEF SkipNearDuplicate, IsNearDuplicate, TypeOK, Positions
  <2> QED BY <2>1, <2>2, <2>3 DEF ScanInv, IndexExact, Positions
<1>3. CASE SameConcept
  <2>1. Positions # {}
    BY <1>3, KeptPosition DEF SameConcept
  <2>2. Positions' = Positions
    BY <1>3, ReplaceKeeps DEF SameConcept, Positions
  <2> QED BY <1>3, <2>1, <2>2, ReplaceKeepsIndex DEF ScanInv
<1>4. CASE Keep
  <2>1. Positions' # {}
    BY <1>4, KeepExtends DEF Positions
  <2> QED BY <1>4, <2>1, KeepKeepsIndex DEF ScanInv
<1>5. CASE EndScan \/ ResolvePair \/ EndResolve \/ Done \/ UNCHANGED vars
  <2>1. UNCHANGED <<input, scanVars>>
    BY <1>5 DEF EndScan, ResolvePair, EndResolve, Done, vars
  <2> QED BY <2>1 DEF ScanInv, IndexExact, Positions, Considered, input, scanVars
<1> QED BY <1>1, <1>2, <1>3, <1>4, <1>5 DEF Next

\* The scan's invariant holds throughout.
LEMMA ScanInvariant == Spec => []ScanInv
<1>1. Init => ScanInv
  <2> SUFFICES ASSUME Init PROVE ScanInv
    OBVIOUS
  <2>1. Positions = {} /\ Considered = {}
    BY EmptySeq DEF Init, Positions, Considered
  <2> QED BY <2>1 DEF ScanInv, IndexExact
<1>2. TypeOK /\ ScanInv /\ [Next]_vars => ScanInv'
  BY ScanStep
<1> QED BY <1>1, <1>2, TypeCorrect, PTL DEF Spec

\* The index and the word sets follow every replacement the scan makes.
THEOREM IndexCorrect == Spec => []IndexExact
<1>1. ScanInv => IndexExact
  BY DEF ScanInv
<1> QED BY <1>1, ScanInvariant, PTL

\* One concept, one fact, in whatever order its statements were recalled.
THEOREM OneFact == Spec => []OneFactPerConcept
<1>1. TypeOK /\ ScanInv => OneFactPerConcept
  <2> SUFFICES ASSUME TypeOK, ScanInv PROVE OneFactPerConcept
    OBVIOUS
  <2>1. \A i \in Positions : kept[i] \in Memories
    BY ElementOfSeq DEF TypeOK, Positions
  <2>2. \A i \in Positions : Concept[kept[i]] \in Concepts \cup {NoConcept}
    BY <2>1 DEF Concepts
  <2> QED BY <2>2 DEF ScanInv, IndexExact, OneFactPerConcept
<1> QED BY <1>1, TypeCorrect, ScanInvariant, PTL
-----------------------------------------------------------------------------
(***************************************************************************)
(* The contradictions                                                      *)
(***************************************************************************)

\* The pairs resolveConflicts has been through.
Passed(a, b) == a < left \/ (a = left /\ b < right)

\* Every pair that was passed is settled, something is left of what there was,
\* and once the loop is over every pair was passed.
ResolveInv ==
    /\ phase = "scan" => left = 1 /\ right = 2 /\ drop = {}
    /\ right <= Len(kept) \/ right = left + 1
    /\ phase = "done" => right > Len(kept)
    /\ \A a, b \in Positions : a < b /\ Passed(a, b) =>
          a \in drop \/ b \in drop \/ ~Conflicts(kept[a], kept[b])
    /\ Positions # {} => Survivors # {}

\* One pair: the loser of a contradiction is dropped, its winner is not.
LEMMA PairStep ==
    ASSUME TypeOK, ResolveInv, ResolvePair
    PROVE  ResolveInv'
<1>1. /\ left \in Nat \ {0} /\ right \in Nat /\ left < right
      /\ Len(kept) \in Nat /\ right <= Len(kept) /\ kept' = kept /\ phase' = phase
      /\ phase = "resolve"
  BY LenProperties DEF TypeOK, ResolvePair, scanVars
<1>2. left \in Positions /\ right \in Positions /\ Positions' = Positions /\ Positions \subseteq Nat
  BY <1>1 DEF Positions
<1>3. drop \subseteq drop'
  BY DEF ResolvePair
<1>4. left \in drop' \/ right \in drop' \/ ~Conflicts(kept[left], kept[right])
  BY DEF ResolvePair, Contradicted, Loser
<1>5. \A a, b \in Positions : a < b /\ Passed(a, b)' =>
         Passed(a, b) \/ (a = left /\ b = right)
  BY <1>1, <1>2 DEF ResolvePair, NextPair, Passed, Positions
<1>6. \A a, b \in Positions : a < b /\ Passed(a, b)' =>
         a \in drop' \/ b \in drop' \/ ~Conflicts(kept[a], kept[b])
  <2> TAKE a, b \in Positions
  <2> HAVE a < b /\ Passed(a, b)'
  <2>1. CASE a = left /\ b = right
    BY <1>4, <2>1
  <2>2. CASE Passed(a, b)
    BY <1>3, <2>2 DEF ResolveInv
  <2> QED BY <1>5, <2>1, <2>2
<1>7. Survivors' # {}
  <2>1. CASE Contradicted(left, right)
    <3>1. left \notin drop /\ right \notin drop /\ left # right
      BY <1>1, <2>1 DEF Contradicted
    <3>2. drop' = drop \cup {Loser(left, right)} /\ Loser(left, right) \in {left, right}
      BY <2>1 DEF ResolvePair, Loser
    <3> QED BY <1>2, <3>1, <3>2 DEF Survivors
  <2>2. CASE ~Contradicted(left, right)
    <3>1. drop' = drop
      BY <2>2 DEF ResolvePair
    <3> QED BY <1>2, <3>1 DEF Survivors, ResolveInv
  <2> QED BY <2>1, <2>2
<1>8. right' <= Len(kept) \/ right' = left' + 1
  BY <1>1 DEF ResolvePair, NextPair
<1> QED BY <1>1, <1>2, <1>6, <1>7, <1>8 DEF ResolveInv

\* Every step maintains the invariant of the loop.
LEMMA ResolveStep ==
    ASSUME TypeOK, ScanInv, ResolveInv, [Next]_vars
    PROVE  ResolveInv'
<1>1. CASE SkipUnfit \/ SameConcept \/ SkipNearDuplicate \/ Keep
  <2>1. phase' = "scan" /\ left' = 1 /\ right' = 2 /\ drop' = {}
    BY <1>1 DEF SkipUnfit, SameConcept, SkipNearDuplicate, Keep, Scanning, ResolveInv, resolveVars
  <2>2. \A a, b \in Positions' : ~(a < b /\ Passed(a, b)')
    BY <2>1 DEF Positions, Passed
  <2> QED BY <2>1, <2>2 DEF ResolveInv, Survivors
<1>2. CASE ResolvePair
  BY <1>2, PairStep
<1>3. CASE EndScan \/ EndResolve \/ Done \/ UNCHANGED vars
  <2>1. UNCHANGED <<scanVars, resolveVars>>
    BY <1>3 DEF EndScan, EndResolve, Done, vars
  <2>2. UNCHANGED <<kept, left, right, drop>>
    BY <2>1 DEF scanVars, resolveVars
  <2>3. phase' = "scan" => phase = "scan"
    BY <1>3 DEF EndScan, EndResolve, Done, vars
  <2>4. phase' = "done" => right > Len(kept)
    BY <1>3 DEF EndScan, EndResolve, Done, vars, ResolveInv
  <2> QED BY <2>2, <2>3, <2>4 DEF ResolveInv, Positions, Survivors, Passed
<1> QED BY <1>1, <1>2, <1>3 DEF Next

\* The loop's invariant holds throughout.
LEMMA ResolveInvariant == Spec => []ResolveInv
<1>1. Init => ResolveInv
  <2> SUFFICES ASSUME Init PROVE ResolveInv
    OBVIOUS
  <2>1. Positions = {}
    BY EmptySeq DEF Init, Positions
  <2> QED BY <2>1 DEF Init, ResolveInv
<1>2. TypeOK /\ ScanInv /\ ResolveInv /\ [Next]_vars => ResolveInv'
  BY ResolveStep
<1> QED BY <1>1, <1>2, TypeCorrect, ScanInvariant, PTL DEF Spec

\* No two injected memories contradict each other.
THEOREM ContradictionsResolved == Spec => []NoContradiction
<1>1. TypeOK /\ ResolveInv => NoContradiction
  <2> SUFFICES ASSUME TypeOK, ResolveInv, phase = "done",
                      NEW i \in Survivors, NEW j \in Survivors, i # j
               PROVE  ~Conflicts(kept[i], kept[j])
    BY DEF NoContradiction
  <2>1. /\ left \in Nat /\ right \in Nat /\ Len(kept) \in Nat
        /\ right > Len(kept) /\ right = left + 1
    BY LenProperties DEF TypeOK, ResolveInv
  <2>2. \A a, b \in Positions : a < b => Passed(a, b)
    BY <2>1 DEF Passed, Positions
  <2>3. i \in Positions /\ j \in Positions /\ i \notin drop /\ j \notin drop
    BY DEF Survivors
  <2>4. i < j \/ j < i
    BY <2>1, <2>3 DEF Positions
  <2>5. CASE i < j
    BY <2>2, <2>3, <2>5 DEF ResolveInv
  <2>6. CASE j < i
    <3>1. ~Conflicts(kept[j], kept[i])
      BY <2>2, <2>3, <2>6 DEF ResolveInv
    <3> QED BY <3>1 DEF Conflicts
  <2> QED BY <2>4, <2>5, <2>6
<1> QED BY <1>1, TypeCorrect, ResolveInvariant, PTL

\* A turn with something fit to inject injects something.
THEOREM NeverEmptied == Spec => []SomethingSurvives
<1>1. ScanInv /\ ResolveInv => SomethingSurvives
  BY DEF ScanInv, ResolveInv, SomethingSurvives
<1> QED BY <1>1, ScanInvariant, ResolveInvariant, PTL
-----------------------------------------------------------------------------
(***************************************************************************)
(* The current statement                                                   *)
(***************************************************************************)

\* Every created_at is RFC3339.  Without it Supersedes is not an order: the
\* textual fallback may disagree with the instants.
AllDated == \A m \in Memories : Instant[m] \in Int

\* Superseding is a strict order on dated memories.
LEMMA SupersedesOrder ==
    ASSUME AllDated, NEW a \in Memories, NEW b \in Memories, NEW c \in Memories,
           Supersedes(a, b)
    PROVE  ~Supersedes(b, a) /\ (Supersedes(c, a) => Supersedes(c, b))
<1>1. NoInstant \notin Int
  BY SelectionAssumption
<1>2. /\ Instant[a] \in Int /\ Instant[b] \in Int /\ Instant[c] \in Int
      /\ Instant[a] # NoInstant /\ Instant[b] # NoInstant /\ Instant[c] # NoInstant
  BY <1>1 DEF AllDated
<1> QED BY <1>2 DEF Supersedes, NewerThan

\* A step of the scan keeps the current statement of every concept.
LEMMA CurrentStep ==
    ASSUME AllDated, TypeOK, ScanInv, CurrentStatementKept, [Next]_vars
    PROVE  CurrentStatementKept'
<1>1. CASE SkipUnfit
  <2>1. Considered' = Considered
    BY <1>1, ConsideredGrows DEF SkipUnfit
  <2> QED BY <1>1, <2>1 DEF SkipUnfit, CurrentStatementKept, Positions
<1>2. CASE SkipNearDuplicate
  <2>1. Considered' = Considered \cup {Candidate} /\ nearDups' = nearDups \cup {Candidate}
    BY <1>2, ConsideredGrows DEF SkipNearDuplicate
  <2> QED BY <1>2, <2>1 DEF SkipNearDuplicate, CurrentStatementKept, Positions
<1>3. CASE SameConcept
  <2> DEFINE k == conceptIdx[Concept[Candidate]]
  <2>1. /\ k \in Positions /\ Concept[Candidate] \in Concepts
        /\ Concept[kept[k]] = Concept[Candidate] /\ Concept[Candidate] # NoConcept
    BY <1>3, KeptPosition DEF SameConcept, ScanInv, IndexExact, Concepts
  <2>2. Considered' = Considered \cup {Candidate} /\ nearDups' = nearDups
    BY <1>3, ConsideredGrows DEF SameConcept
  <2>3. Candidate \in Memories /\ \A i \in Positions : kept[i] \in Memories
    BY <1>3, CandidateType, ElementOfSeq DEF SameConcept, TypeOK, Positions
  <2>4. Considered \subseteq Memories
    BY DEF Considered, Injectable
  <2>5. CASE CandidateIsCurrent
    <3>1. /\ Positions' = Positions
          /\ \A i \in Positions : kept'[i] = IF i = k THEN Candidate ELSE kept[i]
      BY <1>3, <2>5, ReplaceKeeps DEF SameConcept, Positions
    <3>2. Supersedes(Candidate, kept[k])
      BY <2>5 DEF CandidateIsCurrent
    <3> HIDE DEF k
    <3>3. ASSUME NEW m \in Considered \ nearDups
          PROVE  \E i \in Positions :
                    \/ kept'[i] = m
                    \/ /\ Concept[kept'[i]] = Concept[m]
                       /\ Concept[m] # NoConcept
                       /\ ~Supersedes(m, kept'[i])
      <4>1. PICK i \in Positions :
                    \/ kept[i] = m
                    \/ /\ Concept[kept[i]] = Concept[m]
                       /\ Concept[m] # NoConcept
                       /\ ~Supersedes(m, kept[i])
        BY <3>3 DEF CurrentStatementKept
      <4>2. CASE i # k
        BY <3>1, <4>1, <4>2
      <4>3. CASE i = k
        <5>1. m \in Memories /\ kept[k] \in Memories
          BY <2>1, <2>3, <2>4
        <5>2. ~Supersedes(m, Candidate)
          BY <2>3, <3>2, <4>1, <4>3, <5>1, SupersedesOrder
        <5>3. Concept[m] = Concept[Candidate]
          BY <2>1, <4>1, <4>3
        <5> QED BY <2>1, <3>1, <5>2, <5>3
      <4> QED BY <4>2, <4>3
    <3>4. kept'[k] = Candidate
      BY <2>1, <3>1
    <3> QED BY <2>1, <2>2, <3>1, <3>3, <3>4 DEF CurrentStatementKept
  <2>6. CASE ~CandidateIsCurrent
    <3>1. kept' = kept /\ ~Supersedes(Candidate, kept[k])
      BY <1>3, <2>6 DEF SameConcept, CandidateIsCurrent
    <3> QED BY <2>1, <2>2, <3>1 DEF CurrentStatementKept, Positions
  <2> QED BY <2>5, <2>6
<1>4. CASE Keep
  <2>1. Considered' = Considered \cup {Candidate} /\ nearDups' = nearDups
    BY <1>4, ConsideredGrows DEF Keep
  <2>2. /\ Positions \subseteq Positions' /\ Len(kept) + 1 \in Positions'
        /\ kept'[Len(kept) + 1] = Candidate
        /\ \A i \in Positions : kept'[i] = kept[i]
    BY <1>4, KeepExtends DEF Positions
  <2>3. ASSUME NEW m \in Considered \ nearDups
        PROVE  \E i \in Positions :
                  \/ kept'[i] = m
                  \/ /\ Concept[kept'[i]] = Concept[m]
                     /\ Concept[m] # NoConcept
                     /\ ~Supersedes(m, kept'[i])
    BY <2>2, <2>3 DEF CurrentStatementKept
  <2> QED BY <2>1, <2>2, <2>3 DEF CurrentStatementKept
<1>5. CASE EndScan \/ ResolvePair \/ EndResolve \/ Done \/ UNCHANGED vars
  <2>1. UNCHANGED <<input, scanVars>>
    BY <1>5 DEF EndScan, ResolvePair, EndResolve, Done, vars
  <2> QED BY <2>1 DEF CurrentStatementKept, Positions, Considered, input, scanVars
<1> QED BY <1>1, <1>2, <1>3, <1>4, <1>5 DEF Next

\* On a vault whose memories are all dated, no fit memory is passed over for
\* an older or staler statement of its concept, near-duplicates apart.
THEOREM CurrentStatement ==
    ASSUME AllDated
    PROVE  Spec => []CurrentStatementKept
<1>1. Init => CurrentStatementKept
  BY DEF Init, CurrentStatementKept, Considered
<1>2. TypeOK /\ ScanInv /\ CurrentStatementKept /\ [Next]_vars => CurrentStatementKept'
  BY CurrentStep
<1> QED BY <1>1, <1>2, TypeCorrect, ScanInvariant, PTL DEF Spec
=============================================================================
