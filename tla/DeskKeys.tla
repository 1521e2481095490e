------------------------------ MODULE DeskKeys ------------------------------
(***************************************************************************)
(* The desk wallet of an owner: its key is derived from a master secret    *)
(* the first time it is asked for and stored twice, in data/desks.json and *)
(* in the owner's account in data/ledger.json (custody.ts 42-144,          *)
(* ledger.ts 109-130).                                                     *)
(*                                                                         *)
(* deskKeypair never awaits, so one call at a time runs, but the process   *)
(* may die between and inside its writes, and a write may fail.  The       *)
(* ledger is replaced by a rename; the other files are written in place,   *)
(* and a torn desks.json does not parse, which loadDesks takes for an      *)
(* empty one.  A torn file of a secret holds a fragment, another secret as *)
(* far as anyone can tell.                                                 *)
(*                                                                         *)
(* A host either keeps its disk from one deployment to the next, or has    *)
(* MARKFILL_SECRET in its environment once and for all (.env.example).     *)
(* One process at a time uses the files.                                   *)
(***************************************************************************)
EXTENDS Integers

CONSTANTS
    Owners, Secrets,
    NoSecret, NoKey, NoCall

ASSUME KeyAssumption ==
    /\ NoSecret \notin Secrets
    /\ NoKey \notin Secrets \X Owners

VARIABLES
    host,           \* keeps its disk?  MARKFILL_SECRET of its environment
    env,            \* process.env.MARKFILL_SECRET of the running server
    envFile,        \* the MARKFILL_SECRET line of .env
    masterFile,     \* data/master.key
    desks,          \* data/desks.json, by owner
    pins,           \* deskSecret of the owner's account in data/ledger.json
    call,           \* the call of deskKeypair under way
    answered        \* the addresses owners were ever given

keyVars == <<host, env, envFile, masterFile, desks, pins, call, answered>>

(* The HMAC of the owner under the secret: a key stands for its address.   *)
Derived(secret, owner) == <<secret, owner>>
Keys == Secrets \X Owners

MaybeSecret == Secrets \cup {NoSecret}
MaybeKey == Keys \cup {NoKey}

(* Where a call stands: the write it makes next.                           *)
Writes == {"master", "env", "desks", "pin"}
Call == [owner : Owners, key : Keys, at : Writes]

Hosts == {h \in [disk : BOOLEAN, secret : MaybeSecret] : h.disk \/ h.secret # NoSecret}

None == [o \in Owners |-> NoKey]

KeysInit ==
    /\ host \in Hosts
    /\ env = host.secret
    /\ envFile = NoSecret /\ masterFile = NoSecret
    /\ desks = None /\ pins = None
    /\ call = NoCall
    /\ answered = [o \in Owners |-> {}]

-----------------------------------------------------------------------------
(* A call of deskKeypair.                                                  *)

FirstOf(a, b) == IF a # NoSecret THEN a ELSE b

readEnvSecret == FirstOf(env, FirstOf(envFile, masterFile))

(* Mutant: the copy in the ledger is not looked at.                        *)
DesksOnly(o) == desks[o]

Pinned(o) == IF desks[o] # NoKey THEN desks[o] ELSE pins[o]

CallFound(o) ==
    /\ Pinned(o) # NoKey
    /\ call' = [owner |-> o, key |-> Pinned(o),
                at |-> IF desks[o] = NoKey THEN "desks" ELSE "pin"]
    /\ UNCHANGED env

(* Mutant: no new secret is made where there is none.                      *)
DerivesAnyway(o) ==
    /\ Pinned(o) = NoKey
    /\ env' = readEnvSecret
    /\ call' = [owner |-> o, key |-> Derived(readEnvSecret, o), at |-> "desks"]

(* ensureMasterSecret: an existing secret, or a new one that is persisted. *)
CallDerives(o) ==
    /\ Pinned(o) = NoKey
    /\ \/ /\ readEnvSecret # NoSecret
          /\ env' = readEnvSecret
          /\ call' = [owner |-> o, key |-> Derived(readEnvSecret, o), at |-> "desks"]
       \/ /\ readEnvSecret = NoSecret
          /\ \E raw \in Secrets :
                /\ env' = raw
                /\ call' = [owner |-> o, key |-> Derived(raw, o), at |-> "master"]

deskKeypair(o) ==
    /\ call = NoCall
    /\ CallFound(o) \/ CallDerives(o)
    /\ UNCHANGED <<host, envFile, masterFile, desks, pins, answered>>

At(write) == call # NoCall /\ call.at = write

Goto(write) == call' = [call EXCEPT !.at = write]

(* persistMaster: a write that fails is ignored, whatever it left behind.  *)
WriteMaster ==
    /\ At("master")
    /\ masterFile' \in MaybeSecret
    /\ Goto("env")
    /\ UNCHANGED <<host, env, envFile, desks, pins, answered>>

WriteEnv ==
    /\ At("env")
    /\ envFile' \in MaybeSecret
    /\ Goto("desks")
    /\ UNCHANGED <<host, env, masterFile, desks, pins, answered>>

(* The map that was read when the call began, with the owner's entry.      *)
saveDesks ==
    /\ At("desks")
    /\ desks' = [desks EXCEPT ![call.owner] = call.key]
    /\ Goto("pin")
    /\ UNCHANGED <<host, env, envFile, masterFile, pins, answered>>

(* Mutant: the account is changed and not saved.                           *)
Unsaved(o, key) == pins

(* The first pin of an owner stays.                                        *)
pinDeskWallet(o, key) == IF pins[o] # NoKey THEN pins ELSE [pins EXCEPT ![o] = key]

PinAndReturn ==
    /\ At("pin")
    /\ pins' = pinDeskWallet(call.owner, call.key)
    /\ answered' = [answered EXCEPT ![call.owner] = @ \cup {call.key}]
    /\ call' = NoCall
    /\ UNCHANGED <<host, env, envFile, masterFile, desks>>

(* A write of desks.json that fails (a full disk) may have emptied it; one *)
(* of the ledger leaves the old one.  Both throw.                          *)
WriteFails ==
    /\ \/ At("desks") /\ desks' \in {desks, None}
       \/ At("pin") /\ pins[call.owner] = NoKey /\ UNCHANGED desks
    /\ call' = NoCall
    /\ UNCHANGED <<host, env, envFile, masterFile, pins, answered>>

-----------------------------------------------------------------------------
(* The life of the process.                                                *)

(* What dotenv.config leaves in process.env.                               *)
Restart(hostSecret, file) == env' = FirstOf(hostSecret, file) /\ call' = NoCall

(* The process dies, in the middle of a write if there is one under way.   *)
Crash ==
    /\ masterFile' \in IF At("master") THEN MaybeSecret ELSE {masterFile}
    /\ envFile' \in IF At("env") THEN MaybeSecret ELSE {envFile}
    /\ desks' \in IF At("desks") THEN {desks, None} ELSE {desks}
    /\ Restart(host.secret, envFile')
    /\ UNCHANGED <<host, pins, answered>>

(* A deployment on a host that does not keep its disk: .env and data/ go.  *)
Redeploy ==
    /\ ~host.disk
    /\ envFile' = NoSecret /\ masterFile' = NoSecret
    /\ desks' = None /\ pins' = None
    /\ Restart(host.secret, NoSecret)
    /\ UNCHANGED <<host, answered>>

(* The operator sets, changes or removes the secret of a host that keeps   *)
(* its disk.                                                               *)
Reconfigure ==
    /\ host.disk
    /\ \E s \in MaybeSecret : host' = [host EXCEPT !.secret = s] /\ Restart(s, envFile)
    /\ UNCHANGED <<envFile, masterFile, desks, pins, answered>>

KeyStep ==
    \/ \E o \in Owners : deskKeypair(o)
    \/ WriteMaster \/ WriteEnv \/ saveDesks \/ PinAndReturn \/ WriteFails
    \/ Crash \/ Redeploy \/ Reconfigure

KeySpec == KeysInit /\ [][KeyStep]_keyVars

-----------------------------------------------------------------------------
(* Properties.                                                             *)

KeysTypeOK ==
    /\ host \in Hosts
    /\ env \in MaybeSecret /\ envFile \in MaybeSecret /\ masterFile \in MaybeSecret
    /\ desks \in [Owners -> MaybeKey] /\ pins \in [Owners -> MaybeKey]
    /\ call \in Call \cup {NoCall}
    /\ answered \in [Owners -> SUBSET Keys]

(* Whatever crashes, failed writes, deployments and new secrets come       *)
(* between two calls, an owner is never given a second address             *)
(* (index.html 213: "does not change after it is created").                *)
AddressNeverChanges == \A o \in Owners : \A k1, k2 \in answered[o] : k1 = k2

(* The key a restarted server would sign with for an owner.                *)
Recovered(o) ==
    IF Pinned(o) # NoKey THEN Pinned(o)
    ELSE Derived(FirstOf(host.secret, FirstOf(envFile, masterFile)), o)

(* At every moment, in the middle of a write too, the files and the        *)
(* environment still yield the key of every address given out: a process   *)
(* that dies now strands nobody's tokens.                                  *)
KeyIsKept == \A o \in Owners : \A k \in answered[o] : Recovered(o) = k
=============================================================================
