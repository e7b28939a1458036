--------------------------- MODULE CertAuthority ---------------------------
(***************************************************************************)
(* The certificate authority of msc --mitm on disk: LoadOrCreateCA and     *)
(* persistCA of internal/mitm/ca.go, and the start of the agent that is    *)
(* told to trust it (ExecMITM of internal/agents, writeCABundle).          *)
(*                                                                         *)
(* Every msc process of the user works on the same three files, without a  *)
(* lock.  os.WriteFile is two steps, the truncation and the write; between *)
(* them the file is Blank, which also stands for a missing, torn or        *)
(* corrupt file: none of them parses.  A process may be killed between any *)
(* two steps, and any file operation may be refused by the system.         *)
(*                                                                         *)
(* A launch that generates a CA is the name of that CA: its key and its    *)
(* certificate.                                                            *)
(***************************************************************************)
EXTENDS Naturals, FiniteSets

CONSTANTS
    Launches,   \* the msc processes, in any order and overlap
    Fresh,      \* a CA that an earlier session left on disk
    Aged,       \* one within caRenewBefore of its expiry
    Blank,      \* the content of a file that does not parse
    MaxStarting \* bound: launches that start at the same time

ASSUME CAAssumption ==
    /\ Fresh \notin Launches /\ Aged \notin Launches /\ Blank \notin Launches
    /\ Fresh # Aged /\ Blank # Fresh /\ Blank # Aged
    /\ IsFiniteSet(Launches) /\ MaxStarting \in Nat

Generated == Launches
CAs == Generated \cup {Fresh, Aged}

VARIABLES
    \* The directory
    keyFile, certFile, bundleFile,
    \* The processes
    pc,
    seen,       \* the certificate file as a launch read it last
    ca,         \* the key and the certificate its proxy mints leaves with
    \* History
    trusted,    \* what the agent of each launch read from its trust variables
    refused,    \* launches that had a file operation refused
    steady,     \* the usable pair on disk ever since a launch began, else Blank
    overlapped  \* some launch began while another was starting

files   == <<keyFile, certFile, bundleFile>>
history == <<trusted, refused, steady, overlapped>>
vars    == <<files, pc, seen, ca, history>>

\* A pair parseCA accepts: both parse, the key belongs to the certificate.
Matches(c, k) == c # Blank /\ k = c

MatchIgnored(c, k) == c \notin {Blank, Aged} /\ k # Blank   \* mutant
ExpiryInverted(c, k) == Matches(c, k) /\ c = Aged           \* mutant
\* And one that is not about to expire.
Reusable(c, k) == Matches(c, k) /\ c # Aged

Init ==
    /\ keyFile \in {Blank, Fresh, Aged}
    /\ certFile \in {Blank, Fresh, Aged}
    /\ bundleFile \in {Blank, Fresh}
    /\ pc = [p \in Launches |-> "new"]
    /\ seen = [p \in Launches |-> Blank]
    /\ ca = [p \in Launches |-> [key |-> Blank, cert |-> Blank]]
    /\ trusted = [p \in Launches |-> {}]
    /\ refused = {}
    /\ steady = [p \in Launches |-> Blank]
    /\ overlapped = FALSE

At(p, l) == pc[p] = l
Goto(p, l) == pc' = [pc EXCEPT ![p] = l]

Starting == {p \in Launches : pc[p] \notin {"new", "running", "failed", "gone"}}

\* The CA of a whole pair that has time left, Blank if c and k are none.
Whole(c, k) == IF c = k /\ c # Aged THEN c ELSE Blank

\* The pair on disk becomes c and k.
Disturb(c, k) ==
    steady' = [p \in Launches |-> IF Whole(c, k) = steady[p] THEN steady[p] ELSE Blank]

-----------------------------------------------------------------------------
(***************************************************************************)
(* LoadOrCreateCA                                                          *)
(***************************************************************************)

\* msc --mitm begins, and makes the directory if it is not there.
Start(p) ==
    /\ At(p, "new")
    /\ Cardinality(Starting) < MaxStarting
    /\ overlapped' = (overlapped \/ Starting # {})
    /\ steady' = [steady EXCEPT ![p] = Whole(certFile, keyFile)]
    /\ \/ Goto(p, "readCert") /\ UNCHANGED refused
       \/ Goto(p, "failed") /\ refused' = refused \cup {p}
    /\ UNCHANGED <<files, seen, ca, trusted>>

\* The certificate is read, or cannot be.
ReadCert(p) ==
    /\ At(p, "readCert")
    /\ \/ seen' = [seen EXCEPT ![p] = certFile] /\ UNCHANGED refused
       \/ seen' = [seen EXCEPT ![p] = Blank] /\ refused' = refused \cup {p}
    /\ Goto(p, "readKey")
    /\ UNCHANGED <<files, ca, trusted, steady, overlapped>>

\* The pair read is used from now on.
Reuse(p, key) ==
    /\ Reusable(seen[p], key)
    /\ ca' = [ca EXCEPT ![p] = [key |-> key, cert |-> seen[p]]]
    /\ Goto(p, "loaded")

GenerateInto(p, cert) ==
    /\ ca' = [ca EXCEPT ![p] = [key |-> p, cert |-> cert]]
    /\ Goto(p, "truncateKey")

\* It cannot be read, does not parse, does not match or expires soon: a new CA
\* is generated in memory.
Generate(p, key) == ~Reusable(seen[p], key) /\ GenerateInto(p, p)

\* The key is read, or cannot be, and the pair is judged.
ReadKey(p) ==
    /\ At(p, "readKey")
    /\ \E key \in {keyFile, Blank} :
          /\ Reuse(p, key) \/ Generate(p, key)
          /\ refused' = IF key = keyFile THEN refused ELSE refused \cup {p}
    /\ UNCHANGED <<files, seen, trusted, steady, overlapped>>

-----------------------------------------------------------------------------
(***************************************************************************)
(* persistCA: the key, its permissions, the certificate                    *)
(***************************************************************************)

TruncateKey(p) ==
    /\ At(p, "truncateKey")
    /\ keyFile' = Blank
    /\ Disturb(certFile, Blank)
    /\ Goto(p, "writeKey")
    /\ UNCHANGED <<certFile, bundleFile, seen, ca, trusted, refused, overlapped>>

WriteKey(p) ==
    /\ At(p, "writeKey")
    /\ keyFile' = ca[p].key
    /\ Disturb(certFile, ca[p].key)
    /\ Goto(p, "chmod")
    /\ UNCHANGED <<certFile, bundleFile, seen, ca, trusted, refused, overlapped>>

Chmod(p) ==
    /\ At(p, "chmod")
    /\ Goto(p, "truncateCert")
    /\ UNCHANGED <<files, seen, ca, history>>

TruncateCert(p) ==
    /\ At(p, "truncateCert")
    /\ certFile' = Blank
    /\ Disturb(Blank, keyFile)
    /\ Goto(p, "writeCert")
    /\ UNCHANGED <<keyFile, bundleFile, seen, ca, trusted, refused, overlapped>>

WriteCert(p) ==
    /\ At(p, "writeCert")
    /\ certFile' = ca[p].cert
    /\ Disturb(ca[p].cert, keyFile)
    /\ Goto(p, "loaded")
    /\ UNCHANGED <<keyFile, bundleFile, seen, ca, trusted, refused, overlapped>>

-----------------------------------------------------------------------------
(***************************************************************************)
(* ExecMITM                                                                *)
(***************************************************************************)

\* writeCABundle: with the system's roots at hand msc's certificate is read
\* back from disk to go with them; without, no bundle is written.
Launch(p) ==
    /\ At(p, "loaded")
    /\ \/ seen' = [seen EXCEPT ![p] = certFile] /\ Goto(p, "truncateBundle")
       \/ Goto(p, "spawnPlain") /\ UNCHANGED seen
    /\ UNCHANGED <<files, ca, history>>

TruncateBundle(p) ==
    /\ At(p, "truncateBundle")
    /\ bundleFile' = Blank
    /\ Goto(p, "writeBundle")
    /\ UNCHANGED <<keyFile, certFile, seen, ca, history>>

StaleBundle(p) == bundleFile                     \* mutant
BundledCert(p) == seen[p]

WriteBundle(p) ==
    /\ At(p, "writeBundle")
    /\ bundleFile' = BundledCert(p)
    /\ Goto(p, "spawn")
    /\ UNCHANGED <<keyFile, certFile, seen, ca, history>>

\* The agent starts and reads its trust variables: the certificate file
\* (NODE_EXTRA_CA_CERTS, DENO_CERT) and, if there is one, the bundle
\* (SSL_CERT_FILE, REQUESTS_CA_BUNDLE, CURL_CA_BUNDLE).
Spawn(p) ==
    /\ \/ At(p, "spawn") /\ trusted' = [trusted EXCEPT ![p] = {certFile, bundleFile}]
       \/ At(p, "spawnPlain") /\ trusted' = [trusted EXCEPT ![p] = {certFile}]
    /\ Goto(p, "running")
    /\ UNCHANGED <<files, seen, ca, refused, steady, overlapped>>

-----------------------------------------------------------------------------
\* Where a refused operation ends the launch with an error: everywhere but the
\* two reads of the pair.  A write refused after the truncation leaves the file
\* Blank.
Fallible == {"truncateKey", "writeKey", "chmod", "truncateCert", "writeCert", "loaded",
             "truncateBundle", "writeBundle", "spawn", "spawnPlain"}

Refuse(p) ==
    /\ pc[p] \in Fallible
    /\ refused' = refused \cup {p}
    /\ Goto(p, "failed")
    /\ UNCHANGED <<files, seen, ca, trusted, steady, overlapped>>

\* The process is killed, the machine goes down, a dry run or a taken port ends
\* it before it starts the agent, or its session is over.
Stop(p) ==
    /\ p \in Starting \/ At(p, "running")
    /\ Goto(p, "gone")
    /\ UNCHANGED <<files, seen, ca, history>>

Step(p) ==
    \/ Start(p) \/ ReadCert(p) \/ ReadKey(p)
    \/ TruncateKey(p) \/ WriteKey(p) \/ Chmod(p) \/ TruncateCert(p) \/ WriteCert(p)
    \/ Launch(p) \/ TruncateBundle(p) \/ WriteBundle(p) \/ Spawn(p)
    \/ Refuse(p) \/ Stop(p)

Over == (\A p \in Launches : pc[p] \in {"failed", "gone"}) /\ UNCHANGED vars

Next == (\E p \in Launches : Step(p)) \/ Over

Spec == Init /\ [][Next]_vars
-----------------------------------------------------------------------------
(***************************************************************************)
(* Properties                                                              *)
(***************************************************************************)

Persisting == {"truncateKey", "writeKey", "chmod", "truncateCert", "writeCert"}
Loaded == {"loaded", "truncateBundle", "writeBundle", "spawn", "spawnPlain", "running"}

\* The types of the state; what a launch persists is the CA it generated.
TypeOK ==
    /\ keyFile \in CAs \cup {Blank} /\ certFile \in CAs \cup {Blank}
    /\ bundleFile \in CAs \cup {Blank}
    /\ pc \in [Launches -> {"new", "readCert", "readKey", "failed", "gone"}
                               \cup Persisting \cup Loaded]
    /\ seen \in [Launches -> CAs \cup {Blank}]
    /\ ca \in [Launches -> [key : CAs \cup {Blank}, cert : CAs \cup {Blank}]]
    /\ \A p \in Launches : pc[p] \in Persisting => ca[p] = [key |-> p, cert |-> p]
    /\ trusted \in [Launches -> SUBSET (CAs \cup {Blank})]
    /\ refused \subseteq Launches
    /\ steady \in [Launches -> CAs \cup {Blank}]
    /\ overlapped \in BOOLEAN

\* Whatever crashes and other processes left on disk, no proxy mints leaves
\* with a key that is not its certificate's, or under a CA about to expire.
ServesMatchingPair ==
    \A p \in Launches : pc[p] \in Loaded =>
        ca[p].key = ca[p].cert /\ ca[p].cert \notin {Blank, Aged}

\* A usable pair that stays on disk while a launch loads is the one it serves,
\* so that what was told to trust it still does; the launch replaces it only if
\* it was kept from reading it.
TrustIsKept ==
    \A p \in Launches :
        steady[p] # Blank /\ pc[p] \in Persisting \cup Loaded /\ p \notin refused =>
            ca[p].cert = steady[p]

\* No state of the files keeps a launch from starting, only a refused operation.
StartSurvives == \A p \in Launches : pc[p] = "failed" => p \in refused

\* While launches start one after the other, killed at any step, an agent trusts
\* exactly the CA its own proxy mints with, through the file and the bundle.
AgentTrustsItsProxy ==
    ~overlapped => \A p \in Launches : pc[p] = "running" => trusted[p] = {ca[p].key}
=============================================================================
