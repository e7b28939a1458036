------------------------ MODULE CertAuthorityProofs ------------------------
(***************************************************************************)
(* Theorems about CertAuthority, for any number of launches that overlap   *)
(* in any way.                                                             *)
(***************************************************************************)
EXTENDS CertAuthority, TLAPS

\* A pair that has been on disk since a launch began is there now, and a launch
\* that read the certificate file meanwhile has read it.
SteadyOnDisk ==
    /\ \A p \in Launches : steady[p] # Blank => Whole(certFile, keyFile) = steady[p]
    /\ \A p \in Launches : pc[p] = "readKey" /\ steady[p] # Blank /\ p \notin refused =>
           seen[p] = steady[p]

\* A launch that starts alone finds in the files what it left there.
AloneWithFiles ==
    ~overlapped =>
        /\ \A p, q \in Starting : p = q
        /\ \A p \in Launches :
            /\ pc[p] = "readKey" => seen[p] \in {certFile, Blank}
            /\ pc[p] \in Loaded \ {"running"} => certFile = ca[p].cert
            /\ pc[p] \in {"truncateBundle", "writeBundle"} => seen[p] = ca[p].cert
            /\ pc[p] = "spawn" => bundleFile = ca[p].cert

IInv == /\ TypeOK /\ ServesMatchingPair /\ StartSurvives
        /\ SteadyOnDisk /\ TrustIsKept
        /\ AloneWithFiles /\ AgentTrustsItsProxy

\* The values that are not launches differ from the launches and each other.
LEMMA Names ==
    /\ Blank \notin Launches /\ Aged \notin Launches /\ Fresh \notin Launches
    /\ Blank # Aged /\ Blank # Fresh /\ Fresh # Aged
BY CAAssumption

\* Whatever an earlier session left on disk satisfies the invariant.
LEMMA InitKeeps == Init => IInv
<1> SUFFICES ASSUME Init PROVE IInv
  OBVIOUS
<1>1. TypeOK
  BY DEF Init, TypeOK, CAs, Generated, Persisting, Loaded
<1>2. /\ ServesMatchingPair /\ StartSurvives /\ TrustIsKept /\ AgentTrustsItsProxy
      /\ SteadyOnDisk
  BY DEF Init, ServesMatchingPair, StartSurvives, TrustIsKept, AgentTrustsItsProxy,
         SteadyOnDisk, Loaded, Persisting
<1>3. AloneWithFiles
  BY DEF Init, AloneWithFiles, Starting, Loaded
<1> QED BY <1>1, <1>2, <1>3 DEF IInv

\* A launch begins: a pair on disk now is steady for it; begun alone, it is the
\* only one that starts.
LEMMA StartKeeps ==
    ASSUME IInv, NEW p \in Launches, Start(p)
    PROVE  IInv'
<1> USE Names
<1>1. /\ pc[p] = "new"
      /\ overlapped' = (overlapped \/ Starting # {})
      /\ steady' = [steady EXCEPT ![p] = Whole(certFile, keyFile)]
      /\ UNCHANGED <<keyFile, certFile, bundleFile, seen, ca, trusted>>
      /\ \/ pc' = [pc EXCEPT ![p] = "readCert"] /\ refused' = refused
         \/ pc' = [pc EXCEPT ![p] = "failed"] /\ refused' = refused \cup {p}
  BY DEF Start, At, Goto, files
<1>2. TypeOK'
  BY <1>1 DEF IInv, TypeOK, Whole, Persisting, Loaded
<1>3. ServesMatchingPair' /\ StartSurvives'
  BY <1>1 DEF IInv, ServesMatchingPair, StartSurvives, Loaded, TypeOK
<1>4. SteadyOnDisk' /\ TrustIsKept'
  BY <1>1 DEF IInv, SteadyOnDisk, TrustIsKept, Loaded, Persisting, TypeOK, Whole
<1>5. AgentTrustsItsProxy'
  BY <1>1 DEF IInv, AgentTrustsItsProxy, TypeOK
<1>6. AloneWithFiles'
  <2> SUFFICES ASSUME ~overlapped' PROVE AloneWithFiles'
    BY DEF AloneWithFiles
  <2>1. Starting = {}
    BY <1>1
  <2>2. \A q \in Launches : q # p => pc'[q] = pc[q] /\ q \notin Starting
    BY <1>1, <2>1 DEF IInv, TypeOK
  <2>3. pc'[p] \in {"readCert", "failed"}
    BY <1>1 DEF IInv, TypeOK
  <2>4. \A q \in Launches : q # p => pc'[q] \in {"new", "running", "failed", "gone"}
    BY <2>2 DEF Starting
  <2> QED BY <2>3, <2>4 DEF AloneWithFiles, Starting, Loaded
<1> QED BY <1>2, <1>3, <1>4, <1>5, <1>6 DEF IInv

\* The certificate is read: from a pair that is steady, it is that pair's.
LEMMA ReadCertKeeps ==
    ASSUME IInv, NEW p \in Launches, ReadCert(p)
    PROVE  IInv'
<1> USE Names
<1>1. /\ pc[p] = "readCert" /\ pc' = [pc EXCEPT ![p] = "readKey"]
      /\ \/ seen' = [seen EXCEPT ![p] = certFile] /\ refused' = refused
         \/ seen' = [seen EXCEPT ![p] = Blank] /\ refused' = refused \cup {p}
      /\ UNCHANGED <<keyFile, certFile, bundleFile, ca, trusted, steady, overlapped>>
  BY DEF ReadCert, At, Goto, files, history
<1>2. TypeOK'
  BY <1>1 DEF IInv, TypeOK, Persisting, Loaded
<1>3. ServesMatchingPair' /\ StartSurvives'
  BY <1>1 DEF IInv, ServesMatchingPair, StartSurvives, Loaded, TypeOK
<1>4. SteadyOnDisk' /\ TrustIsKept'
  BY <1>1 DEF IInv, SteadyOnDisk, TrustIsKept, Loaded, Persisting, TypeOK, Whole
<1>5. AloneWithFiles'
  BY <1>1 DEF IInv, AloneWithFiles, Starting, Loaded, TypeOK
<1>6. AgentTrustsItsProxy'
  BY <1>1 DEF IInv, AgentTrustsItsProxy, TypeOK
<1> QED BY <1>2, <1>3, <1>4, <1>5, <1>6 DEF IInv

\* The pair is judged: reused, it matches; replaced, no pair was steady or a read
\* was refused.
LEMMA ReadKeyKeeps ==
    ASSUME IInv, NEW p \in Launches, ReadKey(p)
    PROVE  IInv'
<1> USE Names
<1>1. PICK key \in {keyFile, Blank} :
          /\ pc[p] = "readKey"
          /\ Reuse(p, key) \/ Generate(p, key)
          /\ refused' = IF key = keyFile THEN refused ELSE refused \cup {p}
          /\ UNCHANGED <<keyFile, certFile, bundleFile, seen, trusted, steady, overlapped>>
  BY DEF ReadKey, At, files
<1>2. CASE Reuse(p, key)
  <2>1. /\ seen[p] = key /\ key \notin {Blank, Aged} /\ key = keyFile
        /\ ca' = [ca EXCEPT ![p] = [key |-> key, cert |-> key]]
        /\ pc' = [pc EXCEPT ![p] = "loaded"]
        /\ refused' = refused
    BY <1>1, <1>2 DEF Reuse, Reusable, Matches, Goto
  <2>2. TypeOK'
    BY <1>1, <2>1 DEF IInv, TypeOK, Persisting, Loaded
  <2>3. ServesMatchingPair' /\ StartSurvives'
    BY <1>1, <2>1 DEF IInv, ServesMatchingPair, StartSurvives, Loaded, TypeOK
  <2>4. SteadyOnDisk' /\ TrustIsKept'
    BY <1>1, <2>1 DEF IInv, SteadyOnDisk, TrustIsKept, Loaded, Persisting, TypeOK
  <2>5. AloneWithFiles'
    BY <1>1, <2>1 DEF IInv, AloneWithFiles, Starting, Loaded, TypeOK
  <2>6. AgentTrustsItsProxy'
    BY <1>1, <2>1 DEF IInv, AgentTrustsItsProxy, TypeOK
  <2> QED BY <2>2, <2>3, <2>4, <2>5, <2>6 DEF IInv
<1>3. CASE Generate(p, key)
  <2>1. /\ ca' = [ca EXCEPT ![p] = [key |-> p, cert |-> p]]
        /\ pc' = [pc EXCEPT ![p] = "truncateKey"]
        /\ ~Reusable(seen[p], key)
    BY <1>3 DEF Generate, GenerateInto, Goto
  <2>2. TypeOK'
    BY <1>1, <2>1 DEF IInv, TypeOK, Persisting, Loaded, CAs, Generated
  <2>3. ServesMatchingPair' /\ StartSurvives'
    BY <1>1, <2>1 DEF IInv, ServesMatchingPair, StartSurvives, Loaded, TypeOK
  <2>4. SteadyOnDisk' /\ TrustIsKept'
    <3>1. p \in refused' \/ steady[p] = Blank
      BY <1>1, <2>1 DEF IInv, SteadyOnDisk, Whole, Reusable, Matches, TypeOK
    <3> QED BY <1>1, <2>1, <3>1 DEF IInv, SteadyOnDisk, TrustIsKept, Loaded, Persisting, TypeOK
  <2>5. AloneWithFiles'
    BY <1>1, <2>1 DEF IInv, AloneWithFiles, Starting, Loaded, TypeOK
  <2>6. AgentTrustsItsProxy'
    BY <1>1, <2>1 DEF IInv, AgentTrustsItsProxy, TypeOK
  <2> QED BY <2>2, <2>3, <2>4, <2>5, <2>6 DEF IInv
<1> QED BY <1>1, <1>2, <1>3

\* The key is truncated: nothing is steady any more, for any launch.
LEMMA TruncateKeyKeeps ==
    ASSUME IInv, NEW p \in Launches, TruncateKey(p)
    PROVE  IInv'
<1> USE Names
<1>1. /\ pc[p] = "truncateKey" /\ pc' = [pc EXCEPT ![p] = "writeKey"]
      /\ keyFile' = Blank
      /\ steady' = [q \in Launches |-> IF Whole(certFile, Blank) = steady[q] THEN steady[q] ELSE Blank]
      /\ UNCHANGED <<certFile, bundleFile, seen, ca, trusted, refused, overlapped>>
  BY DEF TruncateKey, At, Goto, files, history, Disturb
<1>2. TypeOK'
  BY <1>1 DEF IInv, TypeOK, Persisting, Loaded
<1>3. ServesMatchingPair' /\ StartSurvives'
  BY <1>1 DEF IInv, ServesMatchingPair, StartSurvives, Loaded, TypeOK
<1>4. SteadyOnDisk' /\ TrustIsKept'
  BY <1>1 DEF IInv, SteadyOnDisk, TrustIsKept, Loaded, Persisting, TypeOK, Whole
<1>5. AloneWithFiles'
  BY <1>1 DEF IInv, AloneWithFiles, Starting, Loaded, TypeOK
<1>6. AgentTrustsItsProxy'
  BY <1>1 DEF IInv, AgentTrustsItsProxy, TypeOK
<1> QED BY <1>2, <1>3, <1>4, <1>5, <1>6 DEF IInv

\* The new key is written: the pair on disk matches only if the certificate is
\* already its own, so what is steady stays steady.
LEMMA WriteKeyKeeps ==
    ASSUME IInv, NEW p \in Launches, WriteKey(p)
    PROVE  IInv'
<1> USE Names
<1>1. /\ pc[p] = "writeKey" /\ pc' = [pc EXCEPT ![p] = "chmod"]
      /\ keyFile' = ca[p].key
      /\ steady' = [q \in Launches |-> IF Whole(certFile, ca[p].key) = steady[q] THEN steady[q] ELSE Blank]
      /\ UNCHANGED <<certFile, bundleFile, seen, ca, trusted, refused, overlapped>>
  BY DEF WriteKey, At, Goto, files, history, Disturb
<1>2. TypeOK'
  BY <1>1 DEF IInv, TypeOK, Persisting, Loaded
<1>3. ServesMatchingPair' /\ StartSurvives'
  BY <1>1 DEF IInv, ServesMatchingPair, StartSurvives, Loaded, TypeOK
<1>4. SteadyOnDisk' /\ TrustIsKept'
  BY <1>1 DEF IInv, SteadyOnDisk, TrustIsKept, Loaded, Persisting, TypeOK, Whole
<1>5. AloneWithFiles'
  BY <1>1 DEF IInv, AloneWithFiles, Starting, Loaded, TypeOK
<1>6. AgentTrustsItsProxy'
  BY <1>1 DEF IInv, AgentTrustsItsProxy, TypeOK
<1> QED BY <1>2, <1>3, <1>4, <1>5, <1>6 DEF IInv

\* The key's permissions change and no content.
LEMMA ChmodKeeps ==
    ASSUME IInv, NEW p \in Launches, Chmod(p)
    PROVE  IInv'
<1> USE Names
<1>1. /\ pc[p] = "chmod" /\ pc' = [pc EXCEPT ![p] = "truncateCert"]
      /\ UNCHANGED <<keyFile, certFile, bundleFile, seen, ca, trusted, refused, steady, overlapped>>
  BY DEF Chmod, At, Goto, files, history
<1>2. TypeOK'
  BY <1>1 DEF IInv, TypeOK, Persisting, Loaded
<1>3. ServesMatchingPair' /\ StartSurvives'
  BY <1>1 DEF IInv, ServesMatchingPair, StartSurvives, Loaded, TypeOK
<1>4. SteadyOnDisk' /\ TrustIsKept'
  BY <1>1 DEF IInv, SteadyOnDisk, TrustIsKept, Loaded, Persisting, TypeOK
<1>5. AloneWithFiles'
  BY <1>1 DEF IInv, AloneWithFiles, Starting, Loaded, TypeOK
<1>6. AgentTrustsItsProxy'
  BY <1>1 DEF IInv, AgentTrustsItsProxy, TypeOK
<1> QED BY <1>2, <1>3, <1>4, <1>5, <1>6 DEF IInv

\* The certificate is truncated.
LEMMA TruncateCertKeeps ==
    ASSUME IInv, NEW p \in Launches, TruncateCert(p)
    PROVE  IInv'
<1> USE Names
<1>1. /\ pc[p] = "truncateCert" /\ pc' = [pc EXCEPT ![p] = "writeCert"]
      /\ certFile' = Blank
      /\ steady' = [q \in Launches |-> IF Whole(Blank, keyFile) = steady[q] THEN steady[q] ELSE Blank]
      /\ UNCHANGED <<keyFile, bundleFile, seen, ca, trusted, refused, overlapped>>
  BY DEF TruncateCert, At, Goto, files, history, Disturb
<1>2. TypeOK'
  BY <1>1 DEF IInv, TypeOK, Persisting, Loaded
<1>3. ServesMatchingPair' /\ StartSurvives'
  BY <1>1 DEF IInv, ServesMatchingPair, StartSurvives, Loaded, TypeOK
<1>4. SteadyOnDisk' /\ TrustIsKept'
  BY <1>1 DEF IInv, SteadyOnDisk, TrustIsKept, Loaded, Persisting, TypeOK, Whole
<1>5. AloneWithFiles'
  BY <1>1 DEF IInv, AloneWithFiles, Starting, Loaded, TypeOK
<1>6. AgentTrustsItsProxy'
  BY <1>1 DEF IInv, AgentTrustsItsProxy, TypeOK
<1> QED BY <1>2, <1>3, <1>4, <1>5, <1>6 DEF IInv

\* The certificate is written; a launch alone then has its own pair on disk.
LEMMA WriteCertKeeps ==
    ASSUME IInv, NEW p \in Launches, WriteCert(p)
    PROVE  IInv'
<1> USE Names
<1>1. /\ pc[p] = "writeCert" /\ pc' = [pc EXCEPT ![p] = "loaded"]
      /\ certFile' = ca[p].cert
      /\ steady' = [q \in Launches |-> IF Whole(ca[p].cert, keyFile) = steady[q] THEN steady[q] ELSE Blank]
      /\ UNCHANGED <<keyFile, bundleFile, seen, ca, trusted, refused, overlapped>>
  BY DEF WriteCert, At, Goto, files, history, Disturb
<1>2. TypeOK'
  BY <1>1 DEF IInv, TypeOK, Persisting, Loaded
<1>3. ServesMatchingPair' /\ StartSurvives'
  BY <1>1 DEF IInv, ServesMatchingPair, StartSurvives, Loaded, TypeOK
<1>4. SteadyOnDisk' /\ TrustIsKept'
  BY <1>1 DEF IInv, SteadyOnDisk, TrustIsKept, Loaded, Persisting, TypeOK, Whole
<1>5. AloneWithFiles'
  BY <1>1 DEF IInv, AloneWithFiles, Starting, Loaded, TypeOK
<1>6. AgentTrustsItsProxy'
  BY <1>1 DEF IInv, AgentTrustsItsProxy, TypeOK
<1> QED BY <1>2, <1>3, <1>4, <1>5, <1>6 DEF IInv

\* The certificate is read back for the bundle, if there are roots to go with it.
LEMMA LaunchKeeps ==
    ASSUME IInv, NEW p \in Launches, Launch(p)
    PROVE  IInv'
<1> USE Names
<1>1. /\ pc[p] = "loaded"
      /\ \/ seen' = [seen EXCEPT ![p] = certFile] /\ pc' = [pc EXCEPT ![p] = "truncateBundle"]
         \/ seen' = seen /\ pc' = [pc EXCEPT ![p] = "spawnPlain"]
      /\ UNCHANGED <<keyFile, certFile, bundleFile, ca, trusted, refused, steady, overlapped>>
  BY DEF Launch, At, Goto, files, history
<1>2. TypeOK'
  <2>1. CASE pc' = [pc EXCEPT ![p] = "truncateBundle"] /\ seen' = [seen EXCEPT ![p] = certFile]
    BY <1>1, <2>1 DEF IInv, TypeOK, Persisting, Loaded
  <2>2. CASE pc' = [pc EXCEPT ![p] = "spawnPlain"] /\ seen' = seen
    BY <1>1, <2>2 DEF IInv, TypeOK, Persisting, Loaded
  <2> QED BY <1>1, <2>1, <2>2
<1>3. ServesMatchingPair' /\ StartSurvives'
  BY <1>1 DEF IInv, ServesMatchingPair, StartSurvives, Loaded, TypeOK
<1>4. SteadyOnDisk' /\ TrustIsKept'
  BY <1>1 DEF IInv, SteadyOnDisk, TrustIsKept, Loaded, Persisting, TypeOK
<1>5. AloneWithFiles'
  <2>1. CASE pc' = [pc EXCEPT ![p] = "truncateBundle"] /\ seen' = [seen EXCEPT ![p] = certFile]
    BY <1>1, <2>1 DEF IInv, AloneWithFiles, Starting, Loaded, TypeOK
  <2>2. CASE pc' = [pc EXCEPT ![p] = "spawnPlain"] /\ seen' = seen
    BY <1>1, <2>2 DEF IInv, AloneWithFiles, Starting, Loaded, TypeOK
  <2> QED BY <1>1, <2>1, <2>2
<1>6. AgentTrustsItsProxy'
  BY <1>1 DEF IInv, AgentTrustsItsProxy, TypeOK
<1> QED BY <1>2, <1>3, <1>4, <1>5, <1>6 DEF IInv

\* The bundle is truncated.
LEMMA TruncateBundleKeeps ==
    ASSUME IInv, NEW p \in Launches, TruncateBundle(p)
    PROVE  IInv'
<1> USE Names
<1>1. /\ pc[p] = "truncateBundle" /\ pc' = [pc EXCEPT ![p] = "writeBundle"]
      /\ bundleFile' = Blank
      /\ UNCHANGED <<keyFile, certFile, seen, ca, trusted, refused, steady, overlapped>>
  BY DEF TruncateBundle, At, Goto, files, history
<1>2. TypeOK'
  BY <1>1 DEF IInv, TypeOK, Persisting, Loaded
<1>3. ServesMatchingPair' /\ StartSurvives'
  BY <1>1 DEF IInv, ServesMatchingPair, StartSurvives, Loaded, TypeOK
<1>4. SteadyOnDisk' /\ TrustIsKept'
  BY <1>1 DEF IInv, SteadyOnDisk, TrustIsKept, Loaded, Persisting, TypeOK
<1>5. AloneWithFiles'
  BY <1>1 DEF IInv, AloneWithFiles, Starting, Loaded, TypeOK
<1>6. AgentTrustsItsProxy'
  BY <1>1 DEF IInv, AgentTrustsItsProxy, TypeOK
<1> QED BY <1>2, <1>3, <1>4, <1>5, <1>6 DEF IInv

\* The bundle is written with the certificate read back.
LEMMA WriteBundleKeeps ==
    ASSUME IInv, NEW p \in Launches, WriteBundle(p)
    PROVE  IInv'
<1> USE Names
<1>1. /\ pc[p] = "writeBundle" /\ pc' = [pc EXCEPT ![p] = "spawn"]
      /\ bundleFile' = seen[p]
      /\ UNCHANGED <<keyFile, certFile, seen, ca, trusted, refused, steady, overlapped>>
  BY DEF WriteBundle, At, Goto, files, history, BundledCert
<1>2. TypeOK'
  BY <1>1 DEF IInv, TypeOK, Persisting, Loaded
<1>3. ServesMatchingPair' /\ StartSurvives'
  BY <1>1 DEF IInv, ServesMatchingPair, StartSurvives, Loaded, TypeOK
<1>4. SteadyOnDisk' /\ TrustIsKept'
  BY <1>1 DEF IInv, SteadyOnDisk, TrustIsKept, Loaded, Persisting, TypeOK
<1>5. AloneWithFiles'
  BY <1>1 DEF IInv, AloneWithFiles, Starting, Loaded, TypeOK
<1>6. AgentTrustsItsProxy'
  BY <1>1 DEF IInv, AgentTrustsItsProxy, TypeOK
<1> QED BY <1>2, <1>3, <1>4, <1>5, <1>6 DEF IInv

\* The agent reads what its variables name: alone, the files of its own launch.
LEMMA SpawnKeeps ==
    ASSUME IInv, NEW p \in Launches, Spawn(p)
    PROVE  IInv'
<1> USE Names
<1>1. /\ \/ pc[p] = "spawn" /\ trusted' = [trusted EXCEPT ![p] = {certFile, bundleFile}]
         \/ pc[p] = "spawnPlain" /\ trusted' = [trusted EXCEPT ![p] = {certFile}]
      /\ pc' = [pc EXCEPT ![p] = "running"]
      /\ UNCHANGED <<keyFile, certFile, bundleFile, seen, ca, refused, steady, overlapped>>
  BY DEF Spawn, At, Goto, files, history
<1>2. TypeOK'
  BY <1>1 DEF IInv, TypeOK, Persisting, Loaded
<1>3. ServesMatchingPair' /\ StartSurvives'
  BY <1>1 DEF IInv, ServesMatchingPair, StartSurvives, Loaded, TypeOK
<1>4. SteadyOnDisk' /\ TrustIsKept'
  BY <1>1 DEF IInv, SteadyOnDisk, TrustIsKept, Loaded, Persisting, TypeOK
<1>5. AloneWithFiles'
  BY <1>1 DEF IInv, AloneWithFiles, Starting, Loaded, TypeOK
<1>6. AgentTrustsItsProxy'
  <2> SUFFICES ASSUME ~overlapped', NEW q \in Launches, pc'[q] = "running"
               PROVE  trusted'[q] = {ca'[q].key}
    BY DEF AgentTrustsItsProxy
  <2>1. CASE q = p
    <3>1. certFile = ca[p].cert /\ ca[p].key = ca[p].cert
      BY <1>1 DEF IInv, AloneWithFiles, ServesMatchingPair, Loaded
    <3>2. pc[p] = "spawn" => bundleFile = ca[p].cert
      BY <1>1 DEF IInv, AloneWithFiles
    <3>3. trusted'[p] = {ca[p].key}
      BY <1>1, <3>1, <3>2 DEF IInv, TypeOK
    <3> QED BY <1>1, <2>1, <3>3
  <2>2. CASE q # p
    BY <1>1, <2>2 DEF IInv, AgentTrustsItsProxy, TypeOK
  <2> QED BY <2>1, <2>2
<1> QED BY <1>2, <1>3, <1>4, <1>5, <1>6 DEF IInv

\* A refused operation ends the launch, and is the reason it failed.
LEMMA RefuseKeeps ==
    ASSUME IInv, NEW p \in Launches, Refuse(p)
    PROVE  IInv'
<1> USE Names
<1>1. /\ pc[p] \in Fallible
      /\ pc' = [pc EXCEPT ![p] = "failed"]
      /\ refused' = refused \cup {p}
      /\ UNCHANGED <<keyFile, certFile, bundleFile, seen, ca, trusted, steady, overlapped>>
  BY DEF Refuse, At, Goto, files, history
<1>2. TypeOK'
  BY <1>1 DEF IInv, TypeOK, Persisting, Loaded
<1>3. ServesMatchingPair' /\ StartSurvives'
  BY <1>1 DEF IInv, ServesMatchingPair, StartSurvives, Loaded, TypeOK
<1>4. SteadyOnDisk' /\ TrustIsKept'
  BY <1>1 DEF IInv, SteadyOnDisk, TrustIsKept, Loaded, Persisting, TypeOK
<1>5. AloneWithFiles'
  BY <1>1 DEF IInv, AloneWithFiles, Starting, Loaded, TypeOK, Fallible
<1>6. AgentTrustsItsProxy'
  BY <1>1 DEF IInv, AgentTrustsItsProxy, TypeOK
<1> QED BY <1>2, <1>3, <1>4, <1>5, <1>6 DEF IInv

\* A process dies or ends anywhere; its files stay as they are.
LEMMA StopKeeps ==
    ASSUME IInv, NEW p \in Launches, Stop(p)
    PROVE  IInv'
<1> USE Names
<1>1. /\ p \in Starting \/ pc[p] = "running"
      /\ pc' = [pc EXCEPT ![p] = "gone"]
      /\ UNCHANGED <<keyFile, certFile, bundleFile, seen, ca, trusted, refused, steady, overlapped>>
  BY DEF Stop, At, Goto, files, history
<1>2. TypeOK'
  BY <1>1 DEF IInv, TypeOK, Persisting, Loaded
<1>3. ServesMatchingPair' /\ StartSurvives'
  BY <1>1 DEF IInv, ServesMatchingPair, StartSurvives, Loaded, TypeOK
<1>4. SteadyOnDisk' /\ TrustIsKept'
  BY <1>1 DEF IInv, SteadyOnDisk, TrustIsKept, Loaded, Persisting, TypeOK
<1>5. AloneWithFiles'
  BY <1>1 DEF IInv, AloneWithFiles, Starting, Loaded, TypeOK
<1>6. AgentTrustsItsProxy'
  BY <1>1 DEF IInv, AgentTrustsItsProxy, TypeOK
<1> QED BY <1>2, <1>3, <1>4, <1>5, <1>6 DEF IInv

\* Every step keeps the invariant.
LEMMA NextKeeps == IInv /\ [Next]_vars => IInv'
<1> SUFFICES ASSUME IInv, [Next]_vars PROVE IInv'
  OBVIOUS
<1>1. ASSUME NEW p \in Launches, Step(p) PROVE IInv'
  BY <1>1, StartKeeps, ReadCertKeeps, ReadKeyKeeps, TruncateKeyKeeps, WriteKeyKeeps,
     ChmodKeeps, TruncateCertKeeps, WriteCertKeeps, LaunchKeeps, TruncateBundleKeeps,
     WriteBundleKeeps, SpawnKeeps, RefuseKeeps, StopKeeps DEF Step
<1>2. CASE UNCHANGED vars
  BY <1>2 DEF vars, files, history, IInv, TypeOK, ServesMatchingPair, StartSurvives,
     SteadyOnDisk, TrustIsKept, AloneWithFiles, Starting, AgentTrustsItsProxy
<1> QED BY <1>1, <1>2 DEF Next, Over

\* The invariant holds in every reachable state.
LEMMA Invariant == Spec => []IInv
<1>1. Init => IInv
  BY InitKeeps
<1>2. IInv /\ [Next]_vars => IInv'
  BY NextKeeps
<1> QED BY <1>1, <1>2, PTL DEF Spec

\* The state is well typed, and what a launch writes into the two files of
\* persistCA is the pair it generated, whatever the other launches did meanwhile.
THEOREM TypeCorrect == Spec => []TypeOK
<1>1. IInv => TypeOK
  BY DEF IInv
<1> QED BY <1>1, Invariant, PTL

\* No launch serves with a key that is not its certificate's, or with a CA about
\* to expire, for any number of launches that overlap, crash and fail anywhere
\* in LoadOrCreateCA.
THEOREM PairsMatch == Spec => []ServesMatchingPair
<1>1. IInv => ServesMatchingPair
  BY DEF IInv
<1> QED BY <1>1, Invariant, PTL

\* LoadOrCreateCA never replaces a usable CA that stays on disk while it loads,
\* unless a read of the pair was refused.
THEOREM TrustSurvives == Spec => []TrustIsKept
<1>1. IInv => TrustIsKept
  BY DEF IInv
<1> QED BY <1>1, Invariant, PTL

\* A missing, torn, expiring or mismatched CA is replaced: only a refused
\* operation ends a launch with an error.
THEOREM NoFileStopsALaunch == Spec => []StartSurvives
<1>1. IInv => StartSurvives
  BY DEF IInv
<1> QED BY <1>1, Invariant, PTL

\* While launches do not overlap, every agent trusts through each of its trust
\* variables exactly the CA its proxy serves, whatever crashes came before.
THEOREM AloneIsTrusted == Spec => []AgentTrustsItsProxy
<1>1. IInv => AgentTrustsItsProxy
  BY DEF IInv
<1> QED BY <1>1, Invariant, PTL
=============================================================================
