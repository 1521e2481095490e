--------------------------- MODULE DeskKeysProofs ---------------------------
(***************************************************************************)
(* Desk addresses never change and their keys are never lost, for every    *)
(* set of owners and secrets, wherever crashes and failed writes fall.     *)
(*                                                                         *)
(* Two arguments, one per kind of host.  Where the disk is kept, the       *)
(* ledger decides: an address is given out only after its key is pinned,   *)
(* a pin stays, and desks.json never contradicts one.  Where it is not,    *)
(* every key there ever was is the one derived from the host's secret.     *)
(***************************************************************************)
EXTENDS DeskKeys, TLAPS

(* desks.json, which is read first, agrees with the ledger.                *)
FilesAgree == \A o \in Owners : desks[o] # NoKey /\ pins[o] # NoKey => desks[o] = pins[o]

(* So does a call under way, and it pins what it has saved.                *)
CallAgrees ==
    call # NoCall =>
        /\ pins[call.owner] # NoKey => call.key = pins[call.owner]
        /\ call.at = "pin" => desks[call.owner] = call.key

KeptInLedger == host.disk => \A o \in Owners : \A k \in answered[o] : pins[o] = k

DerivedOnly ==
    ~host.disk =>
        /\ env = host.secret
        /\ \A o \in Owners : /\ desks[o] \in {NoKey, Derived(host.secret, o)}
                             /\ pins[o] \in {NoKey, Derived(host.secret, o)}
                             /\ answered[o] \subseteq {Derived(host.secret, o)}
        /\ call # NoCall => call.key = Derived(host.secret, call.owner)

KeysInv == KeysTypeOK /\ FilesAgree /\ CallAgrees /\ KeptInLedger /\ DerivedOnly

LEMMA KeysInitially == KeysInit => KeysInv
  BY KeyAssumption DEF KeysInit, KeysInv, KeysTypeOK, FilesAgree, CallAgrees, KeptInLedger,
     DerivedOnly, Hosts, MaybeSecret, MaybeKey, None

(* The secret of a host that may lose its disk is there to be read.        *)
LEMMA SecretIsRead ==
    ASSUME KeysInv, ~host.disk
    PROVE  host.secret \in Secrets /\ readEnvSecret = host.secret
  BY DEF KeysInv, KeysTypeOK, DerivedOnly, Hosts, MaybeSecret, readEnvSecret, FirstOf

(* A call that finds no key on disk takes one that nothing contradicts.    *)
LEMMA CallKeepsInv ==
    ASSUME KeysInv, NEW o \in Owners, deskKeypair(o)
    PROVE  KeysInv'
<1>1. CASE CallFound(o)
  <2>1. Pinned(o) \in Keys /\ (pins[o] # NoKey => Pinned(o) = pins[o])
    BY <1>1 DEF CallFound, Pinned, KeysInv, KeysTypeOK, FilesAgree, MaybeKey
  <2>2. call' \in Call /\ call'.owner = o /\ call'.key = Pinned(o)
        /\ (call'.at = "pin" => desks[o] = Pinned(o))
    BY <1>1, <2>1 DEF CallFound, Call, Writes, Pinned
  <2>3. ~host.disk => Pinned(o) = Derived(host.secret, o)
    BY <1>1 DEF CallFound, Pinned, KeysInv, DerivedOnly
  <2>4. UNCHANGED <<host, env, envFile, masterFile, desks, pins, answered>>
    BY <1>1 DEF CallFound, deskKeypair
  <2>5. QED
    BY <2>1, <2>2, <2>3, <2>4 DEF KeysInv, KeysTypeOK, FilesAgree, CallAgrees, KeptInLedger,
       DerivedOnly
<1>2. CASE CallDerives(o)
  <2>1. pins[o] = NoKey /\ desks[o] = NoKey
    BY <1>2 DEF CallDerives, Pinned
  <2>2. \E s \in Secrets : /\ env' = s
                           /\ call' \in Call /\ call'.owner = o /\ call'.key = Derived(s, o)
                           /\ call'.at # "pin"
                           /\ ~host.disk => s = host.secret
    <3>1. CASE readEnvSecret # NoSecret
      <4>1. readEnvSecret \in Secrets
        BY <3>1 DEF readEnvSecret, FirstOf, KeysInv, KeysTypeOK, MaybeSecret
      <4>2. QED
        BY <1>2, <3>1, <4>1, SecretIsRead DEF CallDerives, Call, Writes, Derived, Keys
    <3>2. CASE readEnvSecret = NoSecret
      <4>1. host.disk
        BY <3>2, SecretIsRead, KeyAssumption
      <4>2. QED
        BY <1>2, <3>2, <4>1 DEF CallDerives, Call, Writes, Derived, Keys
    <3>3. QED
      BY <3>1, <3>2
  <2>3. UNCHANGED <<host, envFile, masterFile, desks, pins, answered>>
    BY DEF deskKeypair
  <2>4. QED
    BY <2>1, <2>2, <2>3 DEF KeysInv, KeysTypeOK, MaybeSecret, FilesAgree, CallAgrees,
       KeptInLedger, DerivedOnly
<1>3. QED
  BY <1>1, <1>2 DEF deskKeypair

(* The writes of a call.                                                   *)
LEMMA WritesKeepInv ==
    ASSUME KeysInv, WriteMaster \/ WriteEnv \/ saveDesks \/ PinAndReturn \/ WriteFails
    PROVE  KeysInv'
<1> USE DEF KeysInv
<1>1. ASSUME NEW write, At(write)
      PROVE  call \in Call /\ call.owner \in Owners /\ call.key \in Keys
  BY <1>1 DEF At, KeysTypeOK, Call
<1>2. CASE WriteMaster \/ WriteEnv
  <2>1. call \in Call /\ call' \in Call /\ call'.owner = call.owner /\ call'.key = call.key
        /\ call'.at # "pin" /\ call # NoCall
    BY <1>2, <1>1 DEF WriteMaster, WriteEnv, Goto, At, Call, Writes
  <2>2. QED
    BY <1>2, <2>1 DEF WriteMaster, WriteEnv, KeysTypeOK, FilesAgree, CallAgrees, KeptInLedger,
       DerivedOnly
<1>3. CASE saveDesks
  <2>1. call \in Call /\ call' \in Call /\ call'.owner = call.owner /\ call'.key = call.key
        /\ call # NoCall /\ call.owner \in Owners /\ call.key \in Keys
    BY <1>3, <1>1 DEF saveDesks, Goto, At, Call, Writes
  <2>2. desks' = [desks EXCEPT ![call.owner] = call.key]
        /\ UNCHANGED <<host, env, envFile, masterFile, pins, answered>>
    BY <1>3 DEF saveDesks
  <2>3. desks' \in [Owners -> MaybeKey] /\ desks'[call.owner] = call.key
        /\ \A o \in Owners : o # call.owner => desks'[o] = desks[o]
    BY <2>1, <2>2 DEF KeysTypeOK, MaybeKey
  <2>4. KeysTypeOK' /\ FilesAgree' /\ CallAgrees' /\ KeptInLedger'
    BY <2>1, <2>2, <2>3 DEF KeysTypeOK, FilesAgree, CallAgrees, KeptInLedger
  <2>5. DerivedOnly'
    BY <2>1, <2>2, <2>3 DEF DerivedOnly
  <2>6. QED
    BY <2>4, <2>5
<1>4. CASE PinAndReturn
  <2>1. call # NoCall /\ call.owner \in Owners /\ call.key \in Keys /\ desks[call.owner] = call.key
    BY <1>4, <1>1 DEF PinAndReturn, At, CallAgrees
  <2>2. pins' \in [Owners -> MaybeKey] /\ pins'[call.owner] = call.key
        /\ \A o \in Owners : o # call.owner => pins'[o] = pins[o]
    BY <1>4, <2>1 DEF PinAndReturn, pinDeskWallet, KeysTypeOK, MaybeKey, CallAgrees
  <2>3. answered' \in [Owners -> SUBSET Keys]
        /\ answered'[call.owner] = answered[call.owner] \cup {call.key}
        /\ \A o \in Owners : o # call.owner => answered'[o] = answered[o]
    BY <1>4, <2>1 DEF PinAndReturn, KeysTypeOK
  <2>4. call' = NoCall /\ UNCHANGED <<host, env, envFile, masterFile, desks>>
    BY <1>4 DEF PinAndReturn
  <2>5. KeysTypeOK' /\ FilesAgree' /\ CallAgrees'
    BY <2>1, <2>2, <2>3, <2>4 DEF KeysTypeOK, FilesAgree, CallAgrees
  <2>6. KeptInLedger'
    <3>1. \A o \in Owners : pins[o] # NoKey => pins'[o] = pins[o]
      BY <2>1, <2>2 DEF CallAgrees
    <3>2. host.disk => \A k \in answered[call.owner] : k = pins[call.owner] /\ k # NoKey
      BY <2>1, KeyAssumption DEF KeptInLedger, KeysTypeOK, Keys
    <3>3. QED
      BY <2>1, <2>2, <2>3, <2>4, <3>1, <3>2 DEF KeptInLedger
  <2>7. DerivedOnly'
    BY <2>1, <2>2, <2>3, <2>4 DEF DerivedOnly
  <2>8. QED
    BY <2>5, <2>6, <2>7
<1>5. CASE WriteFails
  <2>1. desks' \in {desks, None} /\ call' = NoCall
        /\ UNCHANGED <<host, env, envFile, masterFile, pins, answered>>
    BY <1>5 DEF WriteFails
  <2>2. QED
    BY <2>1 DEF None, KeysTypeOK, MaybeKey, FilesAgree, CallAgrees, KeptInLedger, DerivedOnly
<1>6. QED
  BY <1>2, <1>3, <1>4, <1>5

(* What ends a process, and what the next one finds.                       *)
LEMMA RestartsKeepInv ==
    ASSUME KeysInv, Crash \/ Redeploy \/ Reconfigure
    PROVE  KeysInv'
<1> USE DEF KeysInv
<1>1. CASE Crash
  <2>1. desks' \in {desks, None} /\ call' = NoCall /\ UNCHANGED <<host, pins, answered>>
        /\ masterFile' \in MaybeSecret /\ envFile' \in MaybeSecret
        /\ env' = FirstOf(host.secret, envFile')
    BY <1>1 DEF Crash, Restart, KeysTypeOK
  <2>2. host.secret \in MaybeSecret /\ env' \in MaybeSecret /\ (~host.disk => env' = host.secret)
    BY <2>1 DEF FirstOf, KeysTypeOK, Hosts
  <2>3. QED
    BY <2>1, <2>2 DEF None, KeysTypeOK, MaybeKey, FilesAgree, CallAgrees, KeptInLedger, DerivedOnly
<1>2. CASE Redeploy
  <2>1. ~host.disk /\ desks' = None /\ pins' = None /\ call' = NoCall /\ envFile' = NoSecret
        /\ masterFile' = NoSecret /\ UNCHANGED <<host, answered>>
        /\ env' = FirstOf(host.secret, NoSecret)
    BY <1>2 DEF Redeploy, Restart
  <2>2. env' = host.secret /\ host.secret \in MaybeSecret /\ NoSecret \in MaybeSecret
    BY <2>1 DEF FirstOf, KeysTypeOK, Hosts, MaybeSecret
  <2>3. QED
    BY <2>1, <2>2 DEF None, KeysTypeOK, MaybeKey, FilesAgree, CallAgrees, KeptInLedger, DerivedOnly
<1>3. CASE Reconfigure
  <2>1. PICK s \in MaybeSecret : host' = [host EXCEPT !.secret = s] /\ Restart(s, envFile)
    BY <1>3 DEF Reconfigure
  <2>2. host.disk /\ host' \in Hosts /\ host'.disk
    BY <1>3, <2>1 DEF Reconfigure, Hosts, KeysTypeOK
  <2>3. env' \in MaybeSecret /\ call' = NoCall
    BY <2>1 DEF Restart, FirstOf, KeysTypeOK
  <2>4. UNCHANGED <<envFile, masterFile, desks, pins, answered>>
    BY <1>3 DEF Reconfigure
  <2>5. QED
    BY <2>2, <2>3, <2>4 DEF KeysTypeOK, FilesAgree, CallAgrees, KeptInLedger, DerivedOnly
<1>4. QED
  BY <1>1, <1>2, <1>3

LEMMA KeysNext == KeysInv /\ [KeyStep]_keyVars => KeysInv'
<1> SUFFICES ASSUME KeysInv, [KeyStep]_keyVars PROVE KeysInv'
  OBVIOUS
<1>1. CASE KeyStep
  BY <1>1, CallKeepsInv, WritesKeepInv, RestartsKeepInv DEF KeyStep
<1>2. CASE UNCHANGED keyVars
  BY <1>2 DEF keyVars, KeysInv, KeysTypeOK, FilesAgree, CallAgrees, KeptInLedger, DerivedOnly
<1>3. QED
  BY <1>1, <1>2

(* A call under way always holds a key of the owner it answers, made from  *)
(* a secret that is there (ensureMasterSecret never derives from nothing). *)
THEOREM KeysTyped == KeySpec => []KeysTypeOK
<1>1. KeysInv => KeysTypeOK
  BY DEF KeysInv
<1>2. QED
  BY <1>1, KeysInitially, KeysNext, PTL DEF KeySpec

(* One address for an owner, for ever (custody.ts 118-140).                *)
THEOREM AddressStays == KeySpec => []AddressNeverChanges
<1>1. KeysInv => AddressNeverChanges
  BY DEF KeysInv, KeptInLedger, DerivedOnly, AddressNeverChanges
<1>2. QED
  BY <1>1, KeysInitially, KeysNext, PTL DEF KeySpec

(* The key of an address that was given out can always be had again.       *)
THEOREM KeySurvives == KeySpec => []KeyIsKept
<1>1. KeysInv => KeyIsKept
  <2> SUFFICES ASSUME KeysInv, NEW o \in Owners, NEW k \in answered[o] PROVE Recovered(o) = k
    BY DEF KeyIsKept
  <2>1. k # NoKey
    BY KeyAssumption DEF KeysInv, KeysTypeOK, Keys
  <2>2. CASE host.disk
    BY <2>1, <2>2 DEF KeysInv, KeptInLedger, FilesAgree, Recovered, Pinned
  <2>3. CASE ~host.disk
    <3>1. host.secret # NoSecret
      BY <2>3, SecretIsRead, KeyAssumption
    <3>2. k = Derived(host.secret, o)
      BY <2>3 DEF KeysInv, DerivedOnly
    <3>3. Pinned(o) \in {NoKey, Derived(host.secret, o)}
      BY <2>3 DEF KeysInv, DerivedOnly, Pinned
    <3>4. QED
      BY <3>1, <3>2, <3>3 DEF Recovered, FirstOf
  <2>4. QED
    BY <2>2, <2>3
<1>2. QED
  BY <1>1, KeysInitially, KeysNext, PTL DEF KeySpec
=============================================================================
