------------------------ MODULE Certificates_proofs -------------------------
(***************************************************************************)
(* Proofs about Certificates, for any number of entries, identities and    *)
(* starts.                                                                 *)
(***************************************************************************)
EXTENDS Certificates, TLAPS

(* What the file holds is kept in memory, where it holds a certificate.    *)
KeptInMemory == \A e \in Entry : cert[e] # None => memCert[e] = cert[e] /\ memKey[e] = key[e]

(* ensureServerCerts has been past entry e.                                *)
Passed(e) == pc \in {"save", "write", "launch", "up"} \/ (pc = "certs" /\ e < at)

(* An identity is advertised only by an entry that is there, and only as   *)
(* the pair that the file holds; the memory is the file when nothing was   *)
(* generated or once it is saved; both hold halves that belong together.   *)
IInv ==
  /\ TypeOK
  /\ \A e \in Entry : \A s \in served[e] :
       e \in present /\ cert[e] # None /\ s = <<cert[e], key[e]>> /\ cert[e] = key[e]
  /\ \A e \in Entry : cert[e] = None \/ key[e] = None \/ cert[e] = key[e]
  /\ \A e \in Entry : memCert[e] = None \/ memKey[e] = None \/ memCert[e] = memKey[e]
  /\ pc \in {"certs", "save", "write", "launch", "up"} => KeptInMemory
  /\ pc \in {"launch", "up"} \/ (pc = "certs" /\ ~dirty) => memCert = cert /\ memKey = key
  /\ pc = "load" => at = 1
  /\ \A e \in present \cap Obfs4 : Passed(e) => memCert[e] # None

USE DEF Entry, Id, None

(* IInv holds at first.                                                    *)
LEMMA InitIInv == Init => IInv
<1> SUFFICES ASSUME Init PROVE IInv
  OBVIOUS
<1> USE CertificatesAssumption
<1>1. 1 \in Entry /\ 0 \in Id
  OBVIOUS
<1>2. PICK c \in own(1), k \in own(1) :
        /\ cert = [e \in Entry |-> IF e = 1 THEN c ELSE None]
        /\ key = [e \in Entry |-> IF e = 1 THEN k ELSE None]
  BY DEF Init
<1>3. c \in Id /\ k \in Id /\ (c = 0 \/ k = 0 \/ c = k)
  BY DEF own
<1>4. TypeOK
  <2>1. cert \in [Entry -> Id] /\ key \in [Entry -> Id]
    BY <1>1, <1>2, <1>3
  <2>2. served \in [Entry -> SUBSET (Id \X Id)]
    BY DEF Init
  <2>3. at \in 1 .. NumEntries + 1 /\ made \in 0 .. MaxMade /\ starts \in 0 .. MaxStarts
    BY DEF Init
  <2>4. memCert \in [Entry -> Id] /\ memKey \in [Entry -> Id] /\ present \subseteq Entry
    BY <1>1 DEF Init
  <2>5. dirty \in BOOLEAN /\ state = "ok" /\ pc = "down"
    BY Zenon DEF Init
  <2> QED BY Zenon, <2>1, <2>2, <2>3, <2>4, <2>5 DEF TypeOK
<1>5. \A e \in Entry : cert[e] = None \/ key[e] = None \/ cert[e] = key[e]
  BY <1>2, <1>3
<1> QED BY <1>4, <1>5 DEF Init, IInv, Passed

(* A process that is gone leaves IInv true.                                *)
LEMMA DownIInv == IInv /\ down /\ UNCHANGED file => IInv'
  BY DEF IInv, TypeOK, down, file, mem, KeptInMemory, Passed

(* Every step keeps IInv.                                                  *)
LEMMA NextIInv == IInv /\ [Next]_vars => IInv'
<1> SUFFICES ASSUME IInv, [Next]_vars PROVE IInv'
  OBVIOUS
<1> USE CertificatesAssumption
<1>1. ASSUME NEW e \in Entry, AddEntry(e) PROVE IInv'
  <2>1. own(e) \subseteq Id
    BY DEF own
  <2>2. PICK c \in own(e), k \in own(e) :
          cert' = [cert EXCEPT ![e] = c] /\ key' = [key EXCEPT ![e] = k]
    BY Zenon, <1>1 DEF AddEntry
  <2>3. c = 0 \/ k = 0 \/ c = k
    BY DEF own
  <2>9. TypeOK'
    <3>1. cert' \in [Entry -> Id] /\ key' \in [Entry -> Id]
      BY Zenon, <2>1, <2>2 DEF IInv, TypeOK
    <3> QED BY Zenon, <1>1, <3>1 DEF IInv, TypeOK, AddEntry, mem
  <2>4. \A d \in Entry : d # e => cert'[d] = cert[d] /\ key'[d] = key[d]
    BY <2>2 DEF IInv, TypeOK
  <2>5. cert'[e] = c /\ key'[e] = k
    BY <2>2 DEF IInv, TypeOK
  <2>6. e \notin present /\ served' = served /\ present' = present \cup {e}
        /\ pc = "down" /\ pc' = pc /\ memCert' = memCert /\ memKey' = memKey
    BY <1>1 DEF AddEntry, mem
  <2>7. \A d \in Entry : \A s \in served'[d] :
          d \in present' /\ cert'[d] # None /\ s = <<cert'[d], key'[d]>> /\ cert'[d] = key'[d]
    BY <2>4, <2>6 DEF IInv
  <2>8. \A d \in Entry : cert'[d] = None \/ key'[d] = None \/ cert'[d] = key'[d]
    BY <2>3, <2>4, <2>5 DEF IInv
  <2> QED BY <2>6, <2>7, <2>8, <2>9 DEF IInv, Passed
<1>2. CASE Start
  <2>1. at' \in 1 .. NumEntries + 1
    BY <1>2 DEF Start
  <2>2. dirty' \in BOOLEAN
    BY Zenon, <1>2 DEF Start
  <2>3. starts' \in 0 .. MaxStarts
    BY <1>2 DEF Start, IInv, TypeOK
  <2>4. TypeOK'
    BY SMTT(30), <1>2, <2>1, <2>2, <2>3 DEF Start, IInv, TypeOK, file, mem
  <2> QED BY <1>2, <2>4 DEF Start, IInv, file, mem, KeptInMemory, Passed
<1>3. CASE Load
  <2>1. TypeOK'
    BY Zenon, <1>3 DEF Load, IInv, TypeOK, file
  <2>2. \A e \in Entry : ~(e < 1)
    OBVIOUS
  <2> QED BY Zenon, <1>3, <2>1, <2>2 DEF Load, IInv, file, KeptInMemory, Passed
<1>4. CASE Crash \/ LoadFails \/ GenerateFails \/ SaveFails \/ SetupFails
  BY <1>4, DownIInv DEF Crash, LoadFails, GenerateFails, SaveFails, SetupFails
<1>5. CASE Skip
  <2>1. at \in 1 .. NumEntries /\ at' = at + 1 /\ pc = "certs" /\ pc' = pc
    BY <1>5 DEF Skip, IInv, TypeOK
  <2>2. TypeOK'
    <3>1. at' \in 1 .. NumEntries + 1
      BY <2>1
    <3> QED BY Zenon, <1>5, <3>1 DEF Skip, IInv, TypeOK, file, mem
  <2>3. \A e \in Entry : e < at' => e < at \/ e = at
    BY <2>1
  <2>4. \A e \in (present \cap Obfs4)' : Passed(e)' => memCert'[e] # None
    BY Zenon, <1>5, <2>1, <2>3 DEF Skip, needsCert, IInv, TypeOK, file, mem, Passed
  <2> QED BY <1>5, <2>1, <2>2, <2>4 DEF Skip, IInv, file, mem, KeptInMemory
<1>6. CASE Generate
  <2>1. at \in Entry /\ memCert[at] = None /\ made + 1 # None /\ made + 1 \in Id
    BY <1>6 DEF Generate, needsCert, IInv, TypeOK
  <2>2. memCert' = [memCert EXCEPT ![at] = made + 1] /\ memKey' = [memKey EXCEPT ![at] = made + 1]
    BY <1>6 DEF Generate, newKey
  <2>3. pc = "certs" /\ pc' = "certs" /\ at' = at + 1 /\ dirty' = TRUE /\ served' = served
        /\ cert' = cert /\ key' = key /\ present' = present /\ state' = state
        /\ made' = made + 1 /\ starts' = starts /\ made < MaxMade
    BY <1>6 DEF Generate, file
  <2>4. TypeOK'
    <3>1. memCert' \in [Entry -> Id] /\ memKey' \in [Entry -> Id]
      BY Zenon, <2>1, <2>2 DEF IInv, TypeOK
    <3>2. at' \in 1 .. NumEntries + 1 /\ made' \in 0 .. MaxMade
      BY <2>1, <2>3 DEF IInv, TypeOK
    <3>3. dirty' \in BOOLEAN
      BY <2>3
    <3> QED BY Zenon, <2>3, <3>1, <3>2, <3>3 DEF IInv, TypeOK
  <2>5. cert[at] = None
    BY <2>1, <2>3 DEF IInv, KeptInMemory
  <2>6. KeptInMemory'
    BY SMTT(30), <2>2, <2>3, <2>5 DEF IInv, TypeOK, KeptInMemory
  <2>7. \A e \in Entry : memCert'[e] = None \/ memKey'[e] = None \/ memCert'[e] = memKey'[e]
    BY <2>1, <2>2 DEF IInv, TypeOK
  <2>8. \A e \in (present \cap Obfs4)' : Passed(e)' => memCert'[e] # None
    BY <2>1, <2>2, <2>3 DEF IInv, TypeOK, Passed
  <2> QED BY <2>3, <2>4, <2>6, <2>7, <2>8 DEF IInv
<1>7. CASE EndCerts
  <2>1. at \in Nat /\ at > NumEntries /\ pc = "certs" /\ at' = 1
    BY <1>7 DEF EndCerts, IInv, TypeOK
  <2>2. TypeOK'
    BY SMTT(30), <1>7, <2>1 DEF EndCerts, IInv, TypeOK, file, mem
  <2>3. \A e \in present \cap Obfs4 : Passed(e)
    BY <2>1 DEF IInv, TypeOK, Passed
  <2>4. pc' = "launch" => ~dirty
    BY <1>7 DEF EndCerts, toSave
  <2>5. pc' \in {"save", "launch"}
    BY <1>7 DEF EndCerts
  <2> QED
    BY <1>7, <2>1, <2>2, <2>3, <2>4, <2>5 DEF EndCerts, IInv, file, mem, KeptInMemory
<1>8. CASE Truncate
  BY Zenon, <1>8 DEF Truncate, IInv, TypeOK, mem, KeptInMemory, Passed
<1>9. CASE Write
  BY Zenon, <1>9 DEF Write, IInv, TypeOK, mem, KeptInMemory, Passed
<1>10. CASE Setup
  <2>1. at \in Entry /\ pc = "launch" /\ pc' = pc /\ at' = at + 1 /\ at \in present
        /\ cert' = cert /\ key' = key /\ present' = present /\ state' = state
        /\ memCert' = memCert /\ memKey' = memKey /\ memCert = cert /\ memKey = key
        /\ dirty' = dirty /\ made' = made /\ starts' = starts
    BY <1>10 DEF Setup, IInv, TypeOK, file, mem
  <2>2. \A e \in Entry : \A s \in served'[e] :
          s \in served[e] \/ (e = at /\ at \in Obfs4 /\ s = <<cert[e], key[e]>>)
    BY <1>10, <2>1 DEF Setup, IInv, TypeOK
  <2>3. at \in Obfs4 => cert[at] # None /\ key[at] # None /\ cert[at] = key[at]
    BY <1>10, <2>1 DEF Setup, IInv, Passed
  <2>4. \A e \in Entry : \A s \in served'[e] :
          e \in present /\ cert[e] # None /\ s = <<cert[e], key[e]>> /\ cert[e] = key[e]
    BY <2>1, <2>2, <2>3 DEF IInv
  <2>5. TypeOK'
    <3>1. served' \in [Entry -> SUBSET (Id \X Id)]
      BY <1>10, <2>1 DEF Setup, IInv, TypeOK
    <3> QED BY SMTT(30), <2>1, <3>1 DEF IInv, TypeOK
  <2> QED BY <2>1, <2>4, <2>5 DEF IInv, KeptInMemory, Passed
<1>11. CASE SetupNext
  <2>1. TypeOK'
    BY SMTT(30), <1>11 DEF SetupNext, IInv, TypeOK, file, mem
  <2>2. pc = "launch" /\ pc' \in {"launch", "up"}
    BY <1>11 DEF SetupNext
  <2> QED BY <1>11, <2>1, <2>2 DEF SetupNext, IInv, file, mem, KeptInMemory, Passed
<1>12. CASE UNCHANGED vars
  BY Zenon, <1>12 DEF vars, IInv, TypeOK, KeptInMemory, Passed
<1> QED
  BY <1>1, <1>2, <1>3, <1>4, <1>5, <1>6, <1>7, <1>8, <1>9, <1>10, <1>11, <1>12 DEF Next

(* The inductive invariant holds in every reachable state.                 *)
THEOREM Inductive == Spec => []IInv
  BY InitIInv, NextIInv, PTL DEF Spec

(* Types, for any constants.                                               *)
THEOREM TypeCorrect == Spec => []TypeOK
  BY Inductive, PTL DEF IInv

(* Over all crashes, failed writes and restarts, an entry advertises one   *)
(* identity only: ensureServerCerts saves before Setup uses it.            *)
THEOREM IdentityStable == Spec => []IdentityNeverChanges
<1>1. IInv => IdentityNeverChanges
  BY DEF IInv, IdentityNeverChanges
<1> QED BY <1>1, Inductive, PTL

(* The halves of every advertised identity belong together.                *)
THEOREM AdvertisedHalvesMatch == Spec => []HalvesMatch
<1>1. IInv => HalvesMatch
  BY DEF IInv, HalvesMatch
<1> QED BY <1>1, Inductive, PTL
=============================================================================
