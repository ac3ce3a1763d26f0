------------------------------ MODULE Accounts ------------------------------
(***************************************************************************)
(* auth.Store, the pairing routes of the API and the accounts of the web   *)
(* interface: who owns the device, who holds its bearer token, and which   *)
(* sessions and codes are worth something.  Every request is handled in a  *)
(* goroutine of its own and reads the configuration before it hashes a     *)
(* password or asks for the lock it writes under, so another request may   *)
(* have moved the pairing on in between.                                   *)
(***************************************************************************)
EXTENDS ConfigStore

CONSTANT AccountRequests    \* requests that may be in flight at once

VARIABLES
    handling,    \* request -> where its handler is and what it has read
    webSessions,    \* sessions of the web interface, by kind and secret
    repair,     \* a repair code is stored
    owners,     \* owner credentials chosen so far
    tokens      \* bearer tokens made so far

accountVars == <<configVars, handling, webSessions, repair, owners, tokens>>

\* What a request keeps between its steps: the stage, whether its session is a
\* bootstrap one, and the owner whose secret it has read.
NoRequest == [at |-> "idle", bootstrap |-> FALSE, secret |-> 0]

AccountStages ==
    {"idle", "login", "checked", "setup", "save", "clear", "local",
     "issue", "store", "claim", "rotate", "revoke", "recover", "edit"}

AccountType ==
    /\ ConfigType
    /\ handling \in [AccountRequests ->
           [at : AccountStages, bootstrap : BOOLEAN, secret : 0 .. MaxOwners]]
    /\ webSessions \subseteq [bootstrap : BOOLEAN, secret : 0 .. MaxOwners]
    /\ repair \in BOOLEAN
    /\ owners \in 0 .. MaxOwners /\ tokens \in 1 .. MaxTokens

AccountInit ==
    /\ ConfigInit
    /\ handling = [q \in AccountRequests |-> NoRequest]
    /\ webSessions = {} /\ repair = FALSE /\ owners = 0 /\ tokens = 1

To(q, r) == handling' = [handling EXCEPT ![q] = r]
At(stage) == [NoRequest EXCEPT !.at = stage]

(***************************************************************************)
(* The web interface.                                                      *)
(***************************************************************************)

\* handleLogin: the credentials are checked against a snapshot, which takes a
\* bcrypt comparison, and the session is stored with the secret of that snapshot.
LoginReads(q) ==
    /\ handling[q] = NoRequest
    /\ To(q, [at |-> "login", bootstrap |-> cfg.owner = 0, secret |-> cfg.owner])
    /\ UNCHANGED <<configVars, webSessions, repair, owners, tokens>>

LoginStores(q) ==
    /\ handling[q].at = "login"
    /\ webSessions' = webSessions \cup
           {[bootstrap |-> handling[q].bootstrap, secret |-> handling[q].secret]}
    /\ To(q, NoRequest)
    /\ UNCHANGED <<configVars, repair, owners, tokens>>

\* currentSession: a bootstrap session is good while there is no password, any
\* other one while the secret it was opened with is the current one.
SessionValid(s) ==
    IF s.bootstrap THEN cfg.owner = 0
    ELSE cfg.owner # 0 /\ s.secret = cfg.owner

\* A session ends by logout, age, idleness, as the oldest of too many, or when
\* a request finds it invalid.
SessionLapses ==
    /\ \E s \in webSessions : webSessions' = webSessions \ {s}
    /\ UNCHANGED <<configVars, handling, repair, owners, tokens>>

\* requireReady lets a request of the owner through to its handler.
RequireReady(q, stage) ==
    /\ handling[q] = NoRequest
    /\ \E s \in webSessions : ~s.bootstrap /\ SessionValid(s)
    /\ To(q, At(stage))
    /\ UNCHANGED <<configVars, webSessions, repair, owners, tokens>>

\* handlePassword: a valid session, and for an owner the current password.
PasswordReads(q) ==
    /\ handling[q] = NoRequest
    /\ \E s \in webSessions :
           SessionValid(s) /\ To(q, [At("checked") EXCEPT !.bootstrap = s.bootstrap])
    /\ UNCHANGED <<configVars, webSessions, repair, owners, tokens>>

\* Which of the two ways it saves is decided by a second look at the state.
PasswordRoutes(q) ==
    /\ handling[q].at = "checked"
    /\ To(q, [handling[q] EXCEPT !.at =
              IF handling[q].bootstrap /\ cfg.pairing = "setup_required"
              THEN "setup" ELSE "save"])
    /\ UNCHANGED <<configVars, webSessions, repair, owners, tokens>>

\* The credentials the update writes: numbers never used before.
NewOwner(c) == [c EXCEPT !.owner = owners + 1]
NewToken(c) == [c EXCEPT !.token = tokens + 1, !.pairing = "claimed"]

\* savePassword: a bootstrap session may not replace an owner set meanwhile.
\* MUTANT of MayReplace: the update does not look at the owner again.
MayReplace_Always(bootstrap) == TRUE
MayReplace(bootstrap) == ~bootstrap \/ cfg.owner = 0

\* What the update of a claim, a rotation or a recovery finds when it looks at
\* the state again; a claim code is good for the secret it was derived from.
MayTake(r) ==
    CASE r.at = "claim"   -> cfg.pairing = "claimable" /\ r.secret = cfg.owner
      [] r.at = "rotate"  -> cfg.pairing \in {"claimed", "claimable"}
      [] r.at = "recover" -> repair /\ cfg.pairing = "claimed"

\* The editors of the entrypoints and, as the edit that changes none of the
\* fields kept here, of HomeKit, system, logging and the update channel; the
\* HomeKit bridge saves its own settings the same way.
Edited(s, r) == [cfg EXCEPT !.stream = s, !.ring = r]
Edits == {Edited(s, r) : s \in SUBSET ConfigEntrypoints, r \in SUBSET ConfigEntrypoints}

\* The configurations the update of request r may ask for now, none when its
\* function returns an error.
Wanted(r) ==
    CASE r.at \in {"setup", "local"} ->
            {c \in {[NewOwner(cfg) EXCEPT !.pairing = "claimable"]} :
                cfg.pairing = "setup_required"}
      [] r.at = "save" -> {c \in {NewOwner(cfg)} : MayReplace(r.bootstrap)}
      [] r.at = "edit" -> Edits
      [] r.at \in {"claim", "rotate", "recover"} ->
            {c \in {NewToken(cfg)} : MayTake(r)}
      [] r.at = "revoke" ->
            {c \in {[cfg EXCEPT !.token = 0, !.pairing = "claimable"]} :
                cfg.pairing = "claimed"}
      [] OTHER -> {}

\* Credentials and tokens once drawn are not drawn again, saved or not.
Draws(c) ==
    /\ c.owner <= MaxOwners /\ c.token <= MaxTokens
    /\ owners' = IF c.owner > owners THEN c.owner ELSE owners
    /\ tokens' = IF c.token > tokens THEN c.token ELSE tokens

\* config.Store.Update for request q: ok when it was saved.
CommitConfig(q, ok) ==
    \/ /\ Wanted(handling[q]) = {} /\ ~ok
       /\ UNCHANGED <<configVars, owners, tokens>>
    \/ \E c \in Wanted(handling[q]) : Update(c, ok) /\ Draws(c)

\* SetupOwner, for the web interface, which then drops every session, or for
\* pair/local.  The hash is made before the update looks at the state again.
SetupOwner(q, ok) ==
    /\ handling[q].at \in {"setup", "local"}
    /\ CommitConfig(q, ok)
    /\ To(q, IF ok /\ handling[q].at = "setup" THEN At("clear") ELSE NoRequest)
    /\ UNCHANGED <<webSessions, repair>>

SavePassword(q, ok) ==
    /\ handling[q].at = "save"
    /\ CommitConfig(q, ok)
    /\ To(q, IF ok THEN At("clear") ELSE NoRequest)
    /\ UNCHANGED <<webSessions, repair>>

ClearSessions(q) ==
    /\ handling[q].at = "clear"
    /\ webSessions' = {} /\ To(q, NoRequest)
    /\ UNCHANGED <<configVars, repair, owners, tokens>>

SaveEdit(q, ok) ==
    /\ handling[q].at = "edit"
    /\ CommitConfig(q, ok) /\ To(q, NoRequest)
    /\ UNCHANGED <<webSessions, repair>>

(***************************************************************************)
(* Pairing.                                                                *)
(***************************************************************************)

\* pair/local: sets an owner up, hands out the claim code, or a repair code.
PairLocal(q) ==
    /\ handling[q] = NoRequest
    /\ \/ cfg.pairing = "setup_required" /\ To(q, At("local"))
       \/ cfg.pairing = "claimed" /\ To(q, At("issue"))
    /\ UNCHANGED <<configVars, webSessions, repair, owners, tokens>>

\* IssueRepairCode looks at the state, makes a code, and then takes the lock it
\* stores it under; the code may lapse at any later time.
IssueRepairCode(q) ==
    /\ handling[q].at = "issue"
    /\ To(q, IF cfg.pairing = "claimed" THEN At("store") ELSE NoRequest)
    /\ UNCHANGED <<configVars, webSessions, repair, owners, tokens>>

StoreRepairCode(q) ==
    /\ handling[q].at = "store"
    /\ repair' = TRUE /\ To(q, NoRequest)
    /\ UNCHANGED <<configVars, webSessions, owners, tokens>>

RepairLapses ==
    /\ repair /\ repair' = FALSE
    /\ UNCHANGED <<configVars, handling, webSessions, owners, tokens>>

\* Claim, RotateBearer, RevokeBearer and RecoverBearer: the state, or the
\* bearer, is checked first.  A claim carries a code shown for some secret.
PairingReads(q) ==
    /\ handling[q] = NoRequest
    /\ \/ /\ cfg.pairing = "claimable"
          /\ \E code \in 0 .. owners : To(q, [At("claim") EXCEPT !.secret = code])
       \/ /\ cfg.pairing = "claimed"
          /\ \E stage \in {"rotate", "revoke", "recover"} : To(q, At(stage))
    /\ UNCHANGED <<configVars, webSessions, repair, owners, tokens>>

\* It is refused under the lock: too many attempts, no such challenge, an
\* expired one or one of another host, or a wrong or late repair code.
PairingRefused(q) ==
    /\ handling[q].at \in {"claim", "recover"}
    /\ To(q, NoRequest)
    /\ UNCHANGED <<configVars, webSessions, repair, owners, tokens>>

TakeToken(q, ok) ==
    /\ handling[q].at \in {"claim", "rotate", "recover"}
    /\ CommitConfig(q, ok) /\ To(q, NoRequest)
    /\ repair' = (repair /\ ~(ok /\ handling[q].at = "recover"))
    /\ UNCHANGED webSessions

RevokeBearer(q, ok) ==
    /\ handling[q].at = "revoke"
    /\ CommitConfig(q, ok) /\ To(q, NoRequest)
    /\ UNCHANGED <<webSessions, repair>>

\* The process dies, inside an update or between two of them: sessions, codes
\* and requests are gone.
Restart ==
    /\ \/ Crash /\ UNCHANGED <<owners, tokens>>
       \/ \E q \in AccountRequests : \E c \in Wanted(handling[q]) :
             CrashInUpdate(c) /\ Draws(c)
    /\ handling' = [q \in AccountRequests |-> NoRequest]
    /\ webSessions' = {} /\ repair' = FALSE

AccountNext ==
    \/ SessionLapses \/ RepairLapses \/ Restart
    \/ \E q \in AccountRequests :
          \/ LoginReads(q) \/ LoginStores(q)
          \/ PasswordReads(q) \/ PasswordRoutes(q) \/ ClearSessions(q)
          \/ RequireReady(q, "edit") \/ RequireReady(q, "issue") \/ PairLocal(q)
          \/ IssueRepairCode(q) \/ StoreRepairCode(q) \/ PairingReads(q) \/ PairingRefused(q)
          \/ \E ok \in BOOLEAN : \/ SetupOwner(q, ok) \/ SavePassword(q, ok)
                                 \/ SaveEdit(q, ok) \/ TakeToken(q, ok)
                                 \/ RevokeBearer(q, ok)

AccountSpec == AccountInit /\ [][AccountNext]_accountVars

(***************************************************************************)
(* The owner is kept: once an owner is set, an update that replaces it is  *)
(* one of a request that proved to be the owner's.  A bootstrap session    *)
(* that outlives the setup it was opened for never does it, and neither    *)
(* does pair/local: the owner that was set meanwhile, and the claim code   *)
(* bound to its secret, stay good (savePassword, SetupOwner).              *)
(***************************************************************************)
OwnerKept ==
    [][cfg.owner # 0 /\ cfg'.owner # cfg.owner /\ acked' # acked =>
          \E q \in AccountRequests :
              /\ handling[q].at = "save" /\ ~handling[q].bootstrap
              /\ handling'[q].at = "clear"]_accountVars
=============================================================================
