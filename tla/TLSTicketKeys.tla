---------------------------- MODULE TLSTicketKeys ----------------------------
(***************************************************************************)
(* The session ticket keys of a tls.Config (tls/common.go, tls/ticket.go,  *)
(* tls/handshake_server.go).                                               *)
(*                                                                         *)
(* Server connections that share a Config initialise its keys under a      *)
(* sync.Once, encrypt tickets with the first key and decrypt them with any *)
(* of them, while other goroutines rotate the keys with                    *)
(* SetSessionTicketKeys or Clone the Config.  A GetConfigForClient callback *)
(* may hand a connection another Config, whose keys come from the first.   *)
(*                                                                         *)
(* A key is a number: 0 is the zero SessionTicketKey, and every key drawn  *)
(* at random or chosen by the application is a fresh one.                  *)
(***************************************************************************)
EXTENDS Integers, Sequences, FiniteSets

CONSTANTS
  G,                    \* goroutines
  Orig, Returned, Copy, \* the Config given to Server, the one its GetConfigForClient
                        \* returns, and a Clone of the first
  None,
  Disabled,             \* the Configs with SessionTicketsDisabled set by the application
  Preset,               \* those with SessionTicketKey set by the application
  MaxCalls              \* bound: calls made in all

Configs == {Orig, Returned, Copy}

ASSUME ConstantsAssumption ==
  /\ Orig # Returned /\ Orig # Copy /\ Returned # Copy /\ None \notin Configs
  /\ Disabled \subseteq Configs /\ Preset \subseteq Configs
  /\ MaxCalls \in Nat

VARIABLES
  sessionTicketKeys, SessionTicketKey, SessionTicketsDisabled,
  originalConfig,      \* fields of each Config
  once,                \* the state of serverInitOnce: "new", "running" or "done"
  cloned,              \* Copy exists
  pc, config, target,  \* control point, c.config, and the Config being initialised
  found,               \* the originalConfig that serverInit took
  tickets,             \* tickets given to clients: key, Config, and sets at that time
  sets, lastSet, setKeys, \* calls of SetSessionTicketKeys, their last and all their keys
  fresh,               \* the next unused key
  panicked,            \* encryptTicket indexed an empty slice
  calls

configVars == <<sessionTicketKeys, SessionTicketKey, SessionTicketsDisabled, originalConfig>>
ghosts     == <<sets, lastSet, setKeys>>
vars == <<configVars, once, cloned, pc, config, target, found, tickets, ghosts, fresh,
          panicked, calls>>

PresetKey(c) == IF c = Orig THEN 1 ELSE 2

Init ==
  /\ sessionTicketKeys = [c \in Configs |-> <<>>]
  /\ SessionTicketKey = [c \in Configs |-> IF c \in Preset THEN PresetKey(c) ELSE 0]
  /\ SessionTicketsDisabled = [c \in Configs |-> c \in Disabled]
  /\ originalConfig = [c \in Configs |-> None]
  /\ once = [c \in Configs |-> "new"] /\ cloned = FALSE
  /\ pc = [g \in G |-> "idle"]
  /\ config = [g \in G |-> Orig] /\ target = [g \in G |-> Orig] /\ found = [g \in G |-> None]
  /\ tickets = {} /\ fresh = 3 /\ panicked = FALSE /\ calls = 0
  /\ sets = [c \in Configs |-> 0] /\ lastSet = [c \in Configs |-> 0] /\ setKeys = {}

-----------------------------------------------------------------------------
At(g, l)      == pc[g] = l
Goto(g, l)    == pc' = [pc EXCEPT ![g] = l]
CallBegins(g) == At(g, "idle") /\ calls < MaxCalls /\ calls' = calls + 1

\* The application does not modify the Config its callback returns.
Settable == {Orig} \cup (IF cloned THEN {Copy} ELSE {})

\* SetSessionTicketKeys, used to rotate: a new key, then the one set before.
SetSessionTicketKeys(g) ==
  /\ CallBegins(g)
  /\ \E c \in Settable :
       /\ sessionTicketKeys' = [sessionTicketKeys EXCEPT ![c] =
             IF lastSet[c] = 0 THEN <<fresh>> ELSE <<fresh, lastSet[c]>>]
       /\ lastSet' = [lastSet EXCEPT ![c] = fresh]
       /\ sets' = [sets EXCEPT ![c] = @ + 1]
  /\ setKeys' = setKeys \cup {fresh} /\ fresh' = fresh + 1
  /\ UNCHANGED <<SessionTicketKey, SessionTicketsDisabled, originalConfig, once, cloned, pc,
                 config, target, found, tickets, panicked>>

\* A call that needs the keys of c goes through c.serverInitOnce first.
Initialise(g, c, l) == target' = [target EXCEPT ![g] = c] /\ Goto(g, l)

\* serverHandshake: a connection of Server(Orig) or of Server(Copy).  The mutant
\* forgets serverInitOnce.
Serve_WithoutInit(g) ==
  /\ CallBegins(g)
  /\ \E c \in Settable : config' = [config EXCEPT ![g] = c]
  /\ Goto(g, "hello")
  /\ UNCHANGED <<configVars, once, cloned, target, found, tickets, ghosts, fresh, panicked>>
Serve(g) ==
  /\ CallBegins(g)
  /\ \E c \in Settable : config' = [config EXCEPT ![g] = c] /\ Initialise(g, c, "once_hello")
  /\ UNCHANGED <<configVars, once, cloned, found, tickets, ghosts, fresh, panicked>>

\* Clone of Orig, up to serverInitOnce.
Clone(g) ==
  /\ CallBegins(g) /\ ~cloned
  /\ Initialise(g, Orig, "once_copy")
  /\ UNCHANGED <<configVars, once, cloned, config, found, tickets, ghosts, fresh, panicked>>

-----------------------------------------------------------------------------
(* serverInitOnce.Do(serverInit).                                          *)

\* What follows each use of serverInitOnce.
Wait == [once_hello |-> "hello", once_resume |-> "resume", once_copy |-> "copy"]
Body == [once_hello |-> "init_hello", once_resume |-> "init_resume", once_copy |-> "init_copy"]
Fill == [init_hello |-> "fill_hello", init_resume |-> "fill_resume", init_copy |-> "fill_copy"]
Exit == [init_hello |-> "hello", init_resume |-> "resume", init_copy |-> "copy",
         fill_hello |-> "hello", fill_resume |-> "resume", fill_copy |-> "copy"]

\* The first caller runs the function; the others wait until it has returned.
\* In the mutant a caller does not notice that another one is running it.
MayInit_Twice(c) == once[c] # "done"
MayInit(c)       == once[c] = "new"

Once(g) ==
  LET c == target[g] IN
  /\ pc[g] \in DOMAIN Wait
  /\ \/ once[c] = "done" /\ Goto(g, Wait[pc[g]]) /\ UNCHANGED once
     \/ MayInit(c) /\ once' = [once EXCEPT ![c] = "running"] /\ Goto(g, Body[pc[g]])
  /\ UNCHANGED <<configVars, cloned, config, target, found, tickets, ghosts, fresh, panicked,
                 calls>>

\* serverInit looks whether there are keys, under c.mutex, and then takes originalConfig, under
\* c.mutex again; the two locks are apart from the store below.
InitCheck(g) ==
  LET c == target[g] IN
  /\ pc[g] \in DOMAIN Fill
  /\ \/ /\ SessionTicketsDisabled[c] \/ sessionTicketKeys[c] # <<>>
        /\ once' = [once EXCEPT ![c] = "done"] /\ Goto(g, Exit[pc[g]])
        /\ UNCHANGED <<originalConfig, found>>
     \/ /\ ~(SessionTicketsDisabled[c] \/ sessionTicketKeys[c] # <<>>)
        /\ found' = [found EXCEPT ![g] = originalConfig[c]]
        /\ originalConfig' = [originalConfig EXCEPT ![c] = None]
        /\ Goto(g, Fill[pc[g]]) /\ UNCHANGED once
  /\ UNCHANGED <<sessionTicketKeys, SessionTicketKey, SessionTicketsDisabled, cloned, config,
                 target, tickets, ghosts, fresh, panicked, calls>>

\* The rest of serverInit: a key of its own, or those of the original Config.
InitFill(g) ==
  LET c == target[g]  o == found[g]
      key == IF SessionTicketKey[c] # 0 THEN SessionTicketKey[c]
             ELSE IF o # None THEN SessionTicketKey[o] ELSE fresh
  IN
  /\ pc[g] \in {"fill_hello", "fill_resume", "fill_copy"}
  /\ SessionTicketKey' = [SessionTicketKey EXCEPT ![c] = key]
  /\ fresh' = IF key = fresh THEN fresh + 1 ELSE fresh
  /\ sessionTicketKeys' = [sessionTicketKeys EXCEPT ![c] =
        IF o # None THEN sessionTicketKeys[o] ELSE <<key>>]
  /\ once' = [once EXCEPT ![c] = "done"] /\ Goto(g, Exit[pc[g]])
  /\ UNCHANGED <<SessionTicketsDisabled, originalConfig, cloned, config, target, found,
                 tickets, ghosts, panicked, calls>>

\* The rest of Clone.
CopyConfig(g) ==
  /\ At(g, "copy")
  /\ \/ cloned /\ UNCHANGED <<configVars, cloned, lastSet>>
     \/ /\ ~cloned /\ cloned' = TRUE
        /\ sessionTicketKeys' = [sessionTicketKeys EXCEPT ![Copy] = sessionTicketKeys[Orig]]
        /\ SessionTicketKey' = [SessionTicketKey EXCEPT ![Copy] = SessionTicketKey[Orig]]
        /\ SessionTicketsDisabled' =
             [SessionTicketsDisabled EXCEPT ![Copy] = SessionTicketsDisabled[Orig]]
        /\ lastSet' = [lastSet EXCEPT ![Copy] = lastSet[Orig]]
        /\ UNCHANGED originalConfig
  /\ Goto(g, "idle")
  /\ UNCHANGED <<once, config, target, found, tickets, sets, setKeys, fresh, panicked, calls>>

-----------------------------------------------------------------------------
(* The handshake of a connection.                                          *)

\* readClientHello: GetConfigForClient returns nil or Returned, which is told
\* where to find the keys, initialised, and becomes c.config.
ClientHello(g) ==
  /\ At(g, "hello")
  /\ \/ Goto(g, "resume") /\ UNCHANGED <<originalConfig, target, config>>
     \/ /\ originalConfig' = [originalConfig EXCEPT ![Returned] = config[g]]
        /\ Initialise(g, Returned, "once_resume")
        /\ config' = [config EXCEPT ![g] = Returned]
  /\ UNCHANGED <<sessionTicketKeys, SessionTicketKey, SessionTicketsDisabled, once, cloned,
                 found, tickets, ghosts, fresh, panicked, calls>>

\* The positions of a key in the list, as decryptTicket looks for them.
Positions(c, k) == {i \in 1..Len(sessionTicketKeys[c]) : sessionTicketKeys[c][i] = k}

Accepts(c, t) == ~SessionTicketsDisabled[c] /\ Positions(c, t.key) # {}

\* checkForResumption, and what sends a new ticket: a full handshake with a
\* client that takes tickets, or a resumption under an old key.  Other
\* conditions may refuse a ticket that decrypts.
Resume(g) ==
  LET c == config[g] IN
  /\ At(g, "resume")
  /\ \/ \E t \in tickets : Accepts(c, t) /\ Goto(g, IF 1 \in Positions(c, t.key) THEN "idle" ELSE "issue")
     \/ Goto(g, "idle")
     \/ ~SessionTicketsDisabled[c] /\ Goto(g, "issue")
  /\ UNCHANGED <<configVars, once, cloned, config, target, found, tickets, ghosts, fresh,
                 panicked, calls>>

\* encryptTicket: the keys are read anew, and the first is used.
Issue(g) ==
  LET c == config[g] IN
  /\ At(g, "issue")
  /\ \/ sessionTicketKeys[c] = <<>> /\ panicked' = TRUE /\ UNCHANGED tickets
     \/ /\ sessionTicketKeys[c] # <<>>
        /\ tickets' = tickets \cup {[key |-> Head(sessionTicketKeys[c]), by |-> c, sets |-> sets[c]]}
        /\ UNCHANGED panicked
  /\ Goto(g, "idle")
  /\ UNCHANGED <<configVars, once, cloned, config, target, found, ghosts, fresh, calls>>

Finished == calls = MaxCalls /\ \A g \in G : At(g, "idle")
Done == Finished /\ UNCHANGED vars

Next == Done \/ \E g \in G :
  \/ SetSessionTicketKeys(g) \/ Serve(g) \/ Clone(g)
  \/ Once(g) \/ InitCheck(g) \/ InitFill(g) \/ CopyConfig(g)
  \/ ClientHello(g) \/ Resume(g) \/ Issue(g)

Spec == Init /\ [][Next]_vars

-----------------------------------------------------------------------------
(* Properties.                                                             *)

\* A ticket is accepted by the Config that issued it for as long as no
\* SetSessionTicketKeys call comes in between, whatever goroutine initialised
\* the keys.
TicketAccepted ==
  \A t \in tickets : t.sets = sets[t.by] => Positions(t.by, t.key) # {}

\* A ticket issued under a key that was set survives one rotation.
TicketOutlivesRotation ==
  \A t \in tickets : t.key \in setKeys /\ sets[t.by] <= t.sets + 1 => Positions(t.by, t.key) # {}

\* A ticket lives as long as the Config promises: until a rotation, and through one if its key was set.
TicketsLive == TicketAccepted /\ TicketOutlivesRotation

\* The Configs that are in use have a key to encrypt tickets with, or issue none; and until a
\* rotation they share it, the one a callback returns and the clone included: any of them
\* accepts the tickets of the others.
InUse == {c \in Configs : once[c] = "done" /\ ~SessionTicketsDisabled[c]}
KeysShared ==
  /\ ~panicked /\ \A c \in InUse : sessionTicketKeys[c] # <<>>
  /\ setKeys = {} => \A c, d \in InUse : sessionTicketKeys[c] = sessionTicketKeys[d]
=============================================================================
