---------------------------- MODULE Certificates ----------------------------
(***************************************************************************)
(* The obfs4 identities of the server entries over the life of the config  *)
(* file: Load, ensureServerCerts with GenerateIdentity, Save, and the      *)
(* launch of each entry from what the config holds (Setup with             *)
(* obfs4ArgsFromConfig), with crashes anywhere, failing writes, restarts,  *)
(* and a user who adds entries while the program is down.  An identity is  *)
(* a number; 0 stands for the empty string.                                *)
(***************************************************************************)
EXTENDS Naturals

CONSTANTS
  NumEntries,  \* entries the user may have
  Obfs4,       \* those of type obfs4
  MaxMade,     \* bound on the identities generated
  MaxStarts    \* bound on the starts of the program

ASSUME CertificatesAssumption ==
  /\ NumEntries \in Nat \ {0} /\ MaxMade \in Nat /\ MaxStarts \in Nat
  /\ Obfs4 \subseteq 1 .. NumEntries

Entry == 1 .. NumEntries
None == 0
Id == 0 .. MaxMade + NumEntries  \* those above MaxMade are the users' own

VARIABLES
  state,    \* the file: "ok" or "torn", a part of a JSON text
  cert,     \* what the file holds when it is not torn: certificates,
  key,      \* private keys,
  present,  \* and which entries
  pc,       \* the program: "down", "load", "certs", "save", "write", "launch", "up"
  at,       \* the entry ensureServerCerts, or main, is at
  dirty,
  memCert, memKey,  \* config.Server in memory
  made,     \* identities generated so far
  starts,
  served    \* history: the identities each entry advertised, as the pair
            \* of the node ID of its cert and the public key of its key
file == <<state, cert, key, present>>
mem == <<memCert, memKey>>
vars == <<state, cert, key, present, pc, at, dirty, memCert, memKey, made, starts, served>>

TypeOK ==
  /\ state \in {"ok", "torn"}
  /\ cert \in [Entry -> Id] /\ key \in [Entry -> Id] /\ present \subseteq Entry
  /\ pc \in {"down", "load", "certs", "save", "write", "launch", "up"}
  /\ at \in 1 .. NumEntries + 1 /\ dirty \in BOOLEAN
  /\ memCert \in [Entry -> Id] /\ memKey \in [Entry -> Id]
  /\ made \in 0 .. MaxMade /\ starts \in 0 .. MaxStarts
  /\ served \in [Entry -> SUBSET (Id \X Id)]

(* An entry comes from the user with nothing, with a pair of their own, or *)
(* with only one half of it.                                               *)
own(e) == {None, MaxMade + e}

Init ==
  /\ state = "ok" /\ present = {1}
  /\ \E c, k \in own(1) :
       /\ cert = [e \in Entry |-> IF e = 1 THEN c ELSE None]
       /\ key = [e \in Entry |-> IF e = 1 THEN k ELSE None]
  /\ pc = "down" /\ at = 1 /\ dirty = FALSE
  /\ memCert = [e \in Entry |-> None] /\ memKey = [e \in Entry |-> None]
  /\ made = 0 /\ starts = 0
  /\ served = [e \in Entry |-> {}]

-----------------------------------------------------------------------------
(* The user adds an entry while the program is down.                       *)
AddEntry(e) ==
  /\ pc = "down" /\ state = "ok" /\ e \notin present
  /\ present' = present \cup {e}
  /\ \E c, k \in own(e) :
       cert' = [cert EXCEPT ![e] = c] /\ key' = [key EXCEPT ![e] = k]
  /\ UNCHANGED <<state, pc, at, dirty, made, starts, served>> /\ UNCHANGED mem

Start ==
  /\ pc = "down" /\ starts < MaxStarts
  /\ starts' = starts + 1 /\ pc' = "load" /\ at' = 1 /\ dirty' = FALSE
  /\ UNCHANGED <<made, served>> /\ UNCHANGED mem /\ UNCHANGED file

(* The process is gone: a crash, a kill or a Fatal.                        *)
down == pc' = "down" /\ UNCHANGED <<at, dirty, made, starts, served>> /\ UNCHANGED mem

Crash == pc # "down" /\ down /\ UNCHANGED file

Load ==
  /\ pc = "load" /\ state = "ok"
  /\ memCert' = cert /\ memKey' = key
  /\ pc' = "certs"
  /\ UNCHANGED <<at, dirty, made, starts, served>> /\ UNCHANGED file

LoadFails == pc = "load" /\ state = "torn" /\ down /\ UNCHANGED file

-----------------------------------------------------------------------------
(* ensureServerCerts.                                                      *)
needsCert(e) == e \in present /\ e \in Obfs4 /\ memCert[e] = None

Skip ==
  /\ pc = "certs" /\ at <= NumEntries /\ ~needsCert(at)
  /\ at' = at + 1
  /\ UNCHANGED <<pc, dirty, made, starts, served>> /\ UNCHANGED mem /\ UNCHANGED file

newKey(e, id) == id

Generate ==
  /\ pc = "certs" /\ at <= NumEntries /\ needsCert(at) /\ made < MaxMade
  /\ made' = made + 1
  /\ memCert' = [memCert EXCEPT ![at] = made']
  /\ memKey' = [memKey EXCEPT ![at] = newKey(at, made')]
  /\ dirty' = TRUE /\ at' = at + 1
  /\ UNCHANGED <<pc, starts, served>> /\ UNCHANGED file

GenerateFails ==
  /\ pc = "certs" /\ at <= NumEntries /\ needsCert(at)
  /\ down /\ UNCHANGED file

(* Variant: nothing is saved.                                              *)
toSave_Never == FALSE
toSave == dirty

EndCerts ==
  /\ pc = "certs" /\ at > NumEntries
  /\ pc' = IF toSave THEN "save" ELSE "launch"
  /\ at' = 1
  /\ UNCHANGED <<dirty, made, starts, served>> /\ UNCHANGED mem /\ UNCHANGED file

(* Save: WriteFile empties the file, then writes it.                       *)
Truncate ==
  /\ pc = "save" /\ pc' = "write"
  /\ state' = "torn"
  /\ UNCHANGED <<cert, key, present, at, dirty, made, starts, served>> /\ UNCHANGED mem

Write ==
  /\ pc = "write" /\ pc' = "launch"
  /\ state' = "ok" /\ cert' = memCert /\ key' = memKey
  /\ UNCHANGED <<present, at, dirty, made, starts, served>> /\ UNCHANGED mem

(* The file cannot be opened, or not be written: Fatal.                    *)
SaveFails == pc \in {"save", "write"} /\ down /\ UNCHANGED file

-----------------------------------------------------------------------------
(* The launch of the entries: obfs4ArgsFromConfig wants both halves; the   *)
(* server advertises the node ID of the one and the public key of the      *)
(* other.                                                                  *)
Setup ==
  /\ pc = "launch" /\ at \in present
  /\ at \in Obfs4 => memKey[at] # None
  /\ served' = IF at \in Obfs4
               THEN [served EXCEPT ![at] = @ \cup {<<memCert[at], memKey[at]>>}]
               ELSE served
  /\ at' = at + 1
  /\ UNCHANGED <<pc, dirty, made, starts>> /\ UNCHANGED mem /\ UNCHANGED file

SetupFails ==
  /\ pc = "launch" /\ at \in present /\ at \in Obfs4 /\ memKey[at] = None
  /\ down /\ UNCHANGED file

SetupNext ==
  /\ pc = "launch" /\ at \notin present
  /\ IF at <= NumEntries THEN at' = at + 1 /\ UNCHANGED pc
                         ELSE pc' = "up" /\ UNCHANGED at
  /\ UNCHANGED <<dirty, made, starts, served>> /\ UNCHANGED mem /\ UNCHANGED file

Next ==
  \/ Start \/ Crash \/ Load \/ LoadFails
  \/ Skip \/ Generate \/ GenerateFails \/ EndCerts
  \/ Truncate \/ Write \/ SaveFails
  \/ Setup \/ SetupFails \/ SetupNext
  \/ \E e \in Entry : AddEntry(e)

Spec == Init /\ [][Next]_vars

-----------------------------------------------------------------------------
(* Properties.                                                             *)

(* An entry never advertises two identities, over all crashes and          *)
(* restarts: ensureServerCerts keeps a certificate that is there, and      *)
(* saves a new one before Setup uses it.                                   *)
IdentityNeverChanges == \A e \in Entry : \A s, t \in served[e] : s = t

(* The halves of an advertised identity belong together.                   *)
HalvesMatch == \A e \in Entry : \A s \in served[e] : s[1] = s[2]
=============================================================================
