-------------------------- MODULE TLSSessionProofs --------------------------
(***************************************************************************)
(* Proofs about the two stores that resumption rests on: the server's      *)
(* ticket keys (TLSTicketKeys), for any goroutines, preset keys and number *)
(* of calls, and the client's session cache (LRUSessionCache), for any     *)
(* keys, states and capacity.                                              *)
(***************************************************************************)
EXTENDS TLSTicketKeys, LRUSessionCache, SequenceTheorems, TLAPS

-----------------------------------------------------------------------------
(* The server's ticket keys.                                               *)

\* The control points of a goroutine.
Points == {"idle", "hello", "resume", "issue", "copy"}
            \cup DOMAIN Wait \cup DOMAIN Fill \cup {"fill_hello", "fill_resume", "fill_copy"}

\* The types of the variables.
TypeOK ==
  /\ sessionTicketKeys \in [Configs -> Seq(Nat)]
  /\ SessionTicketKey \in [Configs -> Nat]
  /\ SessionTicketsDisabled \in [Configs -> BOOLEAN]
  /\ originalConfig \in [Configs -> Configs \cup {None}]
  /\ once \in [Configs -> {"new", "running", "done"}]
  /\ cloned \in BOOLEAN /\ panicked \in BOOLEAN
  /\ pc \in [G -> Points]
  /\ config \in [G -> Configs] /\ target \in [G -> Configs] /\ found \in [G -> Configs \cup {None}]
  /\ tickets \subseteq [key : Nat, by : Configs, sets : Nat]
  /\ sets \in [Configs -> Nat] /\ lastSet \in [Configs -> Nat] /\ setKeys \subseteq Nat
  /\ fresh \in Nat /\ calls \in Nat

\* g runs serverInit; g has found no keys and is about to store some.
Filling(g) == pc[g] \in {"fill_hello", "fill_resume", "fill_copy"}
Running(g) == pc[g] \in {"init_hello", "init_resume", "init_copy"} \/ Filling(g)

\* What a goroutine's control point says of the Configs it works on.
PlaceInv == \A g \in G :
  /\ pc[g] \in {"once_hello", "init_hello", "fill_hello"} => target[g] = config[g]
  /\ pc[g] \in {"once_hello", "init_hello", "fill_hello", "hello"} => config[g] \in Settable
  /\ pc[g] \in {"once_resume", "init_resume", "fill_resume"} => target[g] = Returned /\ config[g] = Returned
  /\ pc[g] \in {"once_copy", "init_copy", "fill_copy"} => target[g] = Orig
  /\ pc[g] = "copy" => once[Orig] = "done"
  /\ pc[g] \in {"hello", "resume", "issue"} => once[config[g]] = "done"

\* One goroutine at a time initialises a Config, and nobody uses Copy before it exists.
OnceInv ==
  /\ \A g \in G : Running(g) => once[target[g]] = "running"
  /\ \A g, h \in G : Running(g) /\ Running(h) /\ target[g] = target[h] => g = h
  /\ ~cloned => once[Copy] = "new"

\* A Config that has been initialised, as the original one of another must be ...
Original(o) == o \in Settable /\ once[o] = "done"

\* ... and only Returned has one.
OriginalInv ==
  /\ originalConfig[Orig] = None /\ originalConfig[Copy] = None
  /\ originalConfig[Returned] # None => Original(originalConfig[Returned])
  /\ \A g \in G : /\ pc[g] = "once_resume" /\ once[Returned] = "new" => originalConfig[Returned] # None
                  /\ pc[g] = "init_resume" => originalConfig[Returned] # None
                  /\ pc[g] = "fill_resume" => Original(found[g])
                  /\ pc[g] \in {"fill_hello", "fill_copy"} => found[g] = None

\* Keys that were set are apart from those that serverInit makes, and all from what is fresh.
FreshInv ==
  /\ fresh > 2 /\ \A k \in setKeys : 2 < k /\ k < fresh
  /\ \A c \in Configs :
       /\ \A i \in 1..Len(sessionTicketKeys[c]) : sessionTicketKeys[c][i] < fresh
       /\ SessionTicketKey[c] < fresh /\ SessionTicketKey[c] \notin setKeys
       /\ lastSet[c] = 0 \/ lastSet[c] \in setKeys

\* The first key of a Config is the one set last, or none that was set.
HeadInv == \A c \in Configs \ {Returned} :
  sessionTicketKeys[c] # <<>> /\ sessionTicketKeys[c][1] \in setKeys => sessionTicketKeys[c][1] = lastSet[c]

\* A ticket is good until a rotation, and through one if its key was set.
TicketInv ==
  /\ sets[Returned] = 0
  /\ \A t \in tickets :
       /\ once[t.by] = "done" /\ t.sets <= sets[t.by] /\ t.key < fresh
       /\ t.sets = sets[t.by] => Positions(t.by, t.key) # {}
       /\ t.by # Returned /\ t.key \in setKeys =>
            /\ t.sets = sets[t.by] => t.key = lastSet[t.by]
            /\ sets[t.by] = t.sets + 1 => Positions(t.by, t.key) # {}

\* The inductive invariant behind TicketsLive.
LiveInv == TypeOK /\ PlaceInv /\ OnceInv /\ OriginalInv /\ FreshInv /\ HeadInv /\ TicketInv

-----------------------------------------------------------------------------
(* What KeysShared needs besides, if tickets are disabled in all Configs or *)
(* in none.                                                                *)

\* Tickets are disabled in all Configs or in none.
Uniform == \A c \in Configs : SessionTicketsDisabled[c] = SessionTicketsDisabled[Orig]

\* Keys are made and tickets issued only where tickets are enabled.
EnabledInv == \A g \in G : pc[g] = "issue" \/ Filling(g) => ~SessionTicketsDisabled[Orig]

\* A Config that has been initialised has a key, and a clone has one from the start.
KeyInv == ~SessionTicketsDisabled[Orig] =>
  /\ \A c \in Configs : once[c] = "done" => sessionTicketKeys[c] # <<>>
  /\ cloned => sessionTicketKeys[Copy] # <<>>
  /\ \A g \in G : Filling(g) => target[g] # Copy

\* Until a rotation, keys come from Orig.
SameInv == setKeys = {} => \A c \in Configs : sessionTicketKeys[c] # <<>> =>
  once[Orig] = "done" /\ sessionTicketKeys[c] = sessionTicketKeys[Orig]

\* The inductive invariant behind KeysShared.
SharedInv == Uniform /\ ~panicked /\ EnabledInv /\ KeyInv /\ SameInv

-----------------------------------------------------------------------------
(* The steps.                                                              *)

\* The tables that Once, InitCheck and InitFill look their next point up in.
LEMMA Tables ==
  /\ DOMAIN Wait = {"once_hello", "once_resume", "once_copy"}
  /\ Wait["once_hello"] = "hello" /\ Wait["once_resume"] = "resume" /\ Wait["once_copy"] = "copy"
  /\ Body["once_hello"] = "init_hello" /\ Body["once_resume"] = "init_resume" /\ Body["once_copy"] = "init_copy"
  /\ DOMAIN Fill = {"init_hello", "init_resume", "init_copy"}
  /\ Fill["init_hello"] = "fill_hello" /\ Fill["init_resume"] = "fill_resume" /\ Fill["init_copy"] = "fill_copy"
  /\ Exit["init_hello"] = "hello" /\ Exit["init_resume"] = "resume" /\ Exit["init_copy"] = "copy"
  /\ Exit["fill_hello"] = "hello" /\ Exit["fill_resume"] = "resume" /\ Exit["fill_copy"] = "copy"
  BY DEF Wait, Body, Fill, Exit

\* A rotation: the tickets of the Config lose one generation, and those under the key set last keep it.
LEMMA SetSessionTicketKeysStep ==
  ASSUME NEW g \in G, LiveInv, SetSessionTicketKeys(g)
  PROVE  LiveInv'
<1>1. TypeOK'
  BY SMTT(30), ConstantsAssumption DEF LiveInv, configVars, ghosts, SetSessionTicketKeys, CallBegins, At,
         Settable, TypeOK, Points, Wait, Fill, Configs
<1>2. PlaceInv'
  BY ConstantsAssumption DEF LiveInv, configVars, ghosts, SetSessionTicketKeys, CallBegins, At,
         Settable, TypeOK, Points, PlaceInv, OnceInv, Running, Filling, Wait, Body, Fill, Exit,
         Configs
<1>3. OnceInv'
  BY ConstantsAssumption DEF LiveInv, configVars, ghosts, SetSessionTicketKeys, CallBegins, At,
         Settable, TypeOK, OnceInv, PlaceInv, Running, Filling, Wait, Fill, Configs
<1>4. OriginalInv'
  BY ConstantsAssumption DEF LiveInv, configVars, ghosts, SetSessionTicketKeys, CallBegins, At,
         Settable, TypeOK, OriginalInv, PlaceInv, OnceInv, Original, Running, Filling, Configs
<1>8. PICK c \in Settable :
          /\ sessionTicketKeys' = [sessionTicketKeys EXCEPT ![c] =
                IF lastSet[c] = 0 THEN <<fresh>> ELSE <<fresh, lastSet[c]>>]
          /\ lastSet' = [lastSet EXCEPT ![c] = fresh] /\ sets' = [sets EXCEPT ![c] = @ + 1]
    BY DEF SetSessionTicketKeys
<1>9. c \in Configs /\ c # Returned /\ lastSet[c] \in Nat /\ fresh \in Nat /\ 2 < fresh
  BY <1>8, ConstantsAssumption DEF LiveInv, TypeOK, FreshInv, Settable, Configs
<1>10. /\ sessionTicketKeys'[c] = IF lastSet[c] = 0 THEN <<fresh>> ELSE <<fresh, lastSet[c]>>
       /\ sets'[c] = sets[c] + 1 /\ lastSet'[c] = fresh
       /\ \A d \in Configs \ {c} : /\ sessionTicketKeys'[d] = sessionTicketKeys[d] /\ sets'[d] = sets[d]
                                     /\ lastSet'[d] = lastSet[d]
       /\ setKeys' = setKeys \cup {fresh} /\ fresh' = fresh + 1
  <2>1. /\ sessionTicketKeys \in [Configs -> Seq(Nat)]
        /\ sets \in [Configs -> Nat] /\ lastSet \in [Configs -> Nat]
    BY DEF LiveInv, TypeOK
  <2>2. /\ sets'[c] = sets[c] + 1 /\ lastSet'[c] = fresh
        /\ \A d \in Configs \ {c} : sets'[d] = sets[d] /\ lastSet'[d] = lastSet[d]
    BY <1>8, <1>9, <2>1
  <2>3. /\ sessionTicketKeys'[c] = IF lastSet[c] = 0 THEN <<fresh>> ELSE <<fresh, lastSet[c]>>
        /\ \A d \in Configs \ {c} : sessionTicketKeys'[d] = sessionTicketKeys[d]
    BY <1>8, <1>9, <2>1, Zenon
  <2>4. setKeys' = setKeys \cup {fresh} /\ fresh' = fresh + 1
    BY DEF SetSessionTicketKeys
  <2> QED  BY <2>2, <2>3, <2>4
<1>11. \A i \in 1..Len(sessionTicketKeys'[c]) : sessionTicketKeys'[c][i] \in {fresh, lastSet[c]}
  BY <1>9, <1>10
<1>12. sessionTicketKeys'[c][1] = fresh /\ 1 \in 1..Len(sessionTicketKeys'[c])
  BY <1>9, <1>10
<1>5. FreshInv'
  <2>1. lastSet[c] < fresh /\ \A d \in Configs : SessionTicketKey[d] \in Nat /\ SessionTicketKey[d] < fresh
    BY <1>9 DEF LiveInv, TypeOK, FreshInv
  <2>2. \A d \in Configs : \A i \in 1..Len(sessionTicketKeys'[d]) : sessionTicketKeys'[d][i] < fresh + 1
    <3> SUFFICES ASSUME NEW d \in Configs, NEW i \in 1..Len(sessionTicketKeys'[d])
                 PROVE  sessionTicketKeys'[d][i] < fresh + 1
      OBVIOUS
    <3>1. CASE d = c
      BY <3>1, <2>1, <1>9, <1>11
    <3>2. CASE d # c
      <4>1. /\ sessionTicketKeys'[d] = sessionTicketKeys[d] /\ sessionTicketKeys[d] \in Seq(Nat)
            /\ sessionTicketKeys[d][i] < fresh
        BY <3>2, <1>10 DEF LiveInv, TypeOK, FreshInv
      <4>2. sessionTicketKeys[d][i] \in Nat
        BY <4>1
      <4> QED  BY <4>1, <4>2, <1>9
    <3> QED  BY <3>1, <3>2
  <2>3. SessionTicketKey' = SessionTicketKey
    BY DEF SetSessionTicketKeys
  <2>4. fresh' = fresh + 1 /\ setKeys' = setKeys \cup {fresh} /\ 2 < fresh'
    BY <1>9, <1>10
  <2>5. \A k \in setKeys' : 2 < k /\ k < fresh'
    BY <2>4, <1>9 DEF LiveInv, TypeOK, FreshInv
  <2>6. \A d \in Configs : SessionTicketKey[d] < fresh' /\ SessionTicketKey[d] \notin setKeys'
    BY <2>1, <2>4, <1>9 DEF LiveInv, FreshInv
  <2>7. \A d \in Configs : lastSet'[d] = 0 \/ lastSet'[d] \in setKeys'
    BY <2>4, <1>10 DEF LiveInv, FreshInv
  <2> QED  BY <2>2, <2>3, <2>4, <2>5, <2>6, <2>7 DEF FreshInv
<1>6. HeadInv'
  <2>1. \A d \in Configs : sessionTicketKeys[d] # <<>> => sessionTicketKeys[d][1] < fresh
    BY DEF LiveInv, TypeOK, FreshInv
  <2> QED  BY <2>1, <1>9, <1>10, <1>12 DEF LiveInv, HeadInv
<1>7. TicketInv'
  <2> SUFFICES ASSUME NEW t \in tickets
               PROVE  /\ once[t.by] = "done" /\ t.sets <= sets'[t.by] /\ t.key < fresh'
                      /\ t.sets = sets'[t.by] => Positions(t.by, t.key)' # {}
                      /\ t.by # Returned /\ t.key \in setKeys' =>
                           /\ t.sets = sets'[t.by] => t.key = lastSet'[t.by]
                           /\ sets'[t.by] = t.sets + 1 => Positions(t.by, t.key)' # {}
    BY <1>9, <1>10, ConstantsAssumption DEF LiveInv, TicketInv, SetSessionTicketKeys, Configs
  <2>1. /\ t.by \in Configs /\ t.sets \in Nat /\ t.key \in Nat /\ sets[t.by] \in Nat
        /\ once[t.by] = "done" /\ t.sets <= sets[t.by] /\ t.key < fresh
        /\ t.sets = sets[t.by] => Positions(t.by, t.key) # {}
        /\ t.by # Returned /\ t.key \in setKeys =>
             /\ t.sets = sets[t.by] => t.key = lastSet[t.by]
             /\ sets[t.by] = t.sets + 1 => Positions(t.by, t.key) # {}
    BY DEF LiveInv, TypeOK, TicketInv
  <2>2. t.key \in setKeys' => t.key \in setKeys
    BY <2>1, <1>9, <1>10
  <2>3. CASE t.by # c
    BY SMTT(30), <2>1, <2>2, <2>3, <1>9, <1>10 DEF Positions
  <2>4. CASE t.by = c
    <3>1. sets'[t.by] = t.sets + 1 /\ t.key \in setKeys => Positions(t.by, t.key)' # {}
      BY <2>4, <2>1, <1>10, <1>9 DEF Positions, LiveInv, FreshInv
    <3> QED  BY <3>1, <2>1, <2>2, <2>4, <1>9, <1>10
  <2> QED  BY <2>3, <2>4
<1> QED  BY <1>1, <1>2, <1>3, <1>4, <1>5, <1>6, <1>7 DEF LiveInv

\* A new connection goes through serverInitOnce.
LEMMA ServeStep ==
  ASSUME NEW g \in G, LiveInv, Serve(g)
  PROVE  LiveInv'
<1>1. TypeOK'
  BY SMTT(30), ConstantsAssumption DEF LiveInv, configVars, ghosts, Serve, CallBegins, At, Settable,
         Initialise, Goto, TypeOK, Points, Wait, Fill, Configs
<1>2. PlaceInv'
  BY ConstantsAssumption DEF LiveInv, configVars, ghosts, Serve, CallBegins, At, Settable,
         Initialise, Goto, TypeOK, Points, PlaceInv, OnceInv, Running, Filling, Wait, Body, Fill,
         Exit, Configs
<1>3. OnceInv'
  BY ConstantsAssumption DEF LiveInv, configVars, ghosts, Serve, CallBegins, At, Settable,
         Initialise, Goto, TypeOK, OnceInv, PlaceInv, Running, Filling, Wait, Fill, Configs
<1>4. OriginalInv'
  BY ConstantsAssumption DEF LiveInv, configVars, ghosts, Serve, CallBegins, At, Settable,
         Initialise, Goto, TypeOK, OriginalInv, PlaceInv, OnceInv, Original, Running, Filling,
         Configs
<1>5. FreshInv'
  BY ConstantsAssumption DEF LiveInv, configVars, ghosts, Serve, CallBegins, At, Settable,
         Initialise, Goto, TypeOK, FreshInv, Configs
<1>6. HeadInv'
  BY ConstantsAssumption DEF LiveInv, configVars, ghosts, Serve, CallBegins, At, Settable,
         Initialise, Goto, TypeOK, HeadInv, FreshInv, Configs
<1>7. TicketInv'
  BY ConstantsAssumption DEF LiveInv, configVars, ghosts, Serve, CallBegins, At, Settable,
         Initialise, Goto, TypeOK, TicketInv, Positions, PlaceInv, OnceInv, HeadInv, FreshInv,
         Configs
<1> QED  BY <1>1, <1>2, <1>3, <1>4, <1>5, <1>6, <1>7 DEF LiveInv

\* Clone goes through serverInitOnce.
LEMMA CloneStep ==
  ASSUME NEW g \in G, LiveInv, Clone(g)
  PROVE  LiveInv'
<1>1. TypeOK'
  BY ConstantsAssumption DEF LiveInv, configVars, ghosts, Clone, CallBegins, At, Initialise, Goto,
         TypeOK, Points, Wait, Fill, Configs
<1>2. PlaceInv'
  BY ConstantsAssumption DEF LiveInv, configVars, ghosts, Clone, CallBegins, At, Initialise, Goto,
         TypeOK, Points, PlaceInv, OnceInv, Settable, Running, Filling, Wait, Body, Fill, Exit,
         Configs
<1>3. OnceInv'
  BY ConstantsAssumption DEF LiveInv, configVars, ghosts, Clone, CallBegins, At, Initialise, Goto,
         TypeOK, OnceInv, PlaceInv, Running, Filling, Settable, Wait, Fill, Configs
<1>4. OriginalInv'
  BY ConstantsAssumption DEF LiveInv, configVars, ghosts, Clone, CallBegins, At, Initialise, Goto,
         TypeOK, OriginalInv, PlaceInv, OnceInv, Original, Settable, Running, Filling, Configs
<1>5. FreshInv'
  BY ConstantsAssumption DEF LiveInv, configVars, ghosts, Clone, CallBegins, At, Initialise, Goto,
         TypeOK, FreshInv, Configs
<1>6. HeadInv'
  BY ConstantsAssumption DEF LiveInv, configVars, ghosts, Clone, CallBegins, At, Initialise, Goto,
         TypeOK, HeadInv, FreshInv, Configs
<1>7. TicketInv'
  BY ConstantsAssumption DEF LiveInv, configVars, ghosts, Clone, CallBegins, At, Initialise, Goto,
         TypeOK, TicketInv, Positions, PlaceInv, OnceInv, HeadInv, FreshInv, Configs
<1> QED  BY <1>1, <1>2, <1>3, <1>4, <1>5, <1>6, <1>7 DEF LiveInv

\* serverInitOnce lets one goroutine in, or all once it is done.
LEMMA OnceStep ==
  ASSUME NEW g \in G, LiveInv, Once(g)
  PROVE  LiveInv'
<1>1. TypeOK'
  <2>1. pc' \in [G -> Points]
    <3>1. Wait[pc[g]] \in Points /\ Body[pc[g]] \in Points
      BY Tables DEF Points, Once
    <3> QED  BY <3>1 DEF LiveInv, TypeOK, Once, Goto
  <2>2. once' \in [Configs -> {"new", "running", "done"}]
    BY DEF LiveInv, TypeOK, Once
  <2> QED  BY <2>1, <2>2 DEF LiveInv, TypeOK, Once, configVars, ghosts
<1>2. PlaceInv'
  BY ConstantsAssumption DEF LiveInv, configVars, ghosts, Once, MayInit, Goto, Wait, Body, TypeOK,
         Points, PlaceInv, OnceInv, Settable, Running, Filling, Fill, Exit, Configs
<1>3. OnceInv'
  <2>1. CASE once[target[g]] = "done" /\ Goto(g, Wait[pc[g]]) /\ UNCHANGED once
    BY SMTT(30), <2>1, Tables DEF LiveInv, TypeOK, OnceInv, Once, Running, Filling, Goto
  <2>2. CASE /\ MayInit(target[g]) /\ once' = [once EXCEPT ![target[g]] = "running"]
             /\ Goto(g, Body[pc[g]])
    BY <2>2, Tables, ConstantsAssumption DEF LiveInv, TypeOK, Goto, Once, OnceInv, MayInit, Running, Filling,
       PlaceInv, Settable, Configs
  <2> QED  BY <2>1, <2>2 DEF Once
<1>4. OriginalInv'
  BY ConstantsAssumption DEF LiveInv, configVars, ghosts, Once, MayInit, Goto, Wait, Body, TypeOK,
         OriginalInv, PlaceInv, OnceInv, Original, Settable, Running, Filling, Configs
<1>5. FreshInv'
  BY ConstantsAssumption DEF LiveInv, configVars, ghosts, Once, MayInit, Goto, Wait, Body, TypeOK,
         FreshInv, Configs
<1>6. HeadInv'
  BY ConstantsAssumption DEF LiveInv, configVars, ghosts, Once, MayInit, Goto, Wait, Body, TypeOK,
         HeadInv, FreshInv, Configs
<1>7. TicketInv'
  <2> SUFFICES ASSUME NEW t \in tickets
               PROVE  once'[t.by] = "done"
    BY DEF LiveInv, TicketInv, Positions, Once, configVars, ghosts
  <2>1. t.by \in Configs /\ once[t.by] = "done"
    BY DEF LiveInv, TypeOK, TicketInv
  <2> QED  BY <2>1 DEF LiveInv, TypeOK, OnceInv, Running, Filling, Once, MayInit
<1> QED  BY <1>1, <1>2, <1>3, <1>4, <1>5, <1>6, <1>7 DEF LiveInv

\* serverInit finds keys, or takes the original Config.
LEMMA InitCheckStep ==
  ASSUME NEW g \in G, LiveInv, InitCheck(g)
  PROVE  LiveInv'
<1>1. TypeOK'
  <2>1. pc' \in [G -> Points]
    <3>1. Exit[pc[g]] \in Points /\ Fill[pc[g]] \in Points
      BY Tables DEF Points, InitCheck
    <3> QED  BY <3>1 DEF LiveInv, TypeOK, InitCheck, Goto
  <2>2. once' \in [Configs -> {"new", "running", "done"}]
    BY DEF LiveInv, TypeOK, InitCheck
  <2>3. originalConfig' \in [Configs -> Configs \cup {None}] /\ found' \in [G -> Configs \cup {None}]
    BY DEF LiveInv, TypeOK, InitCheck
  <2> QED  BY <2>1, <2>2, <2>3 DEF LiveInv, TypeOK, InitCheck, configVars, ghosts
<1>2. PlaceInv'
  BY ConstantsAssumption DEF LiveInv, configVars, ghosts, InitCheck, Goto, Exit, Fill, TypeOK,
         Points, PlaceInv, OnceInv, Settable, Running, Filling, Wait, Body, Configs
<1>3. OnceInv'
  <2>1. Running(g) /\ once[target[g]] = "running" /\ target[g] \in Configs
    BY Tables DEF LiveInv, TypeOK, OnceInv, Running, InitCheck
  <2>2. \A h \in G \ {g} : (Running(h)' <=> Running(h)) /\ target'[h] = target[h]
    BY DEF LiveInv, TypeOK, Goto, InitCheck, Running, Filling
  <2>3. \A h \in G \ {g} : Running(h) => target[h] # target[g]
    BY <2>1 DEF LiveInv, OnceInv
  <2>4. /\ Running(g)' => once' = once
        /\ \A c \in Configs \ {target[g]} : once'[c] = once[c]
        /\ target' = target /\ cloned' = cloned
    BY Tables DEF LiveInv, TypeOK, Goto, InitCheck, Running, Filling
  <2>5. ~cloned => target[g] # Copy
    BY <2>1, ConstantsAssumption DEF LiveInv, OnceInv
  <2>6. \A h \in G : target[h] \in Configs
    BY DEF LiveInv, TypeOK
  <2> QED  BY <2>1, <2>2, <2>3, <2>4, <2>5, <2>6 DEF LiveInv, OnceInv, Configs
<1>4. OriginalInv'
  BY SMTT(30), ConstantsAssumption DEF LiveInv, configVars, ghosts, InitCheck, Goto, Exit, Fill, TypeOK,
         OriginalInv, PlaceInv, OnceInv, Original, Settable, Running, Filling, Configs
<1>5. FreshInv'
  BY ConstantsAssumption DEF LiveInv, configVars, ghosts, InitCheck, Goto, Exit, Fill, TypeOK,
         FreshInv, Configs
<1>6. HeadInv'
  BY ConstantsAssumption DEF LiveInv, configVars, ghosts, InitCheck, Goto, Exit, Fill, TypeOK,
         HeadInv, FreshInv, Configs
<1>7. TicketInv'
  <2> SUFFICES ASSUME NEW t \in tickets
               PROVE  once'[t.by] = "done"
    BY DEF LiveInv, TicketInv, Positions, InitCheck, configVars, ghosts
  <2>1. t.by \in Configs /\ once[t.by] = "done"
    BY DEF LiveInv, TypeOK, TicketInv
  <2> QED  BY <2>1 DEF LiveInv, TypeOK, OnceInv, Running, Filling, InitCheck, Fill
<1> QED  BY <1>1, <1>2, <1>3, <1>4, <1>5, <1>6, <1>7 DEF LiveInv

\* serverInit stores a key of its own, or those of the original Config: nobody has used the Config yet.
LEMMA InitFillStep ==
  ASSUME NEW g \in G, LiveInv, InitFill(g)
  PROVE  LiveInv'
<1>1. TypeOK'
  BY SMTT(30), ConstantsAssumption DEF LiveInv, configVars, ghosts, InitFill, Goto, Exit, TypeOK, Points,
         Wait, Fill, Configs
<1>2. PlaceInv'
  BY ConstantsAssumption DEF LiveInv, configVars, ghosts, InitFill, Goto, Exit, TypeOK, Points,
         PlaceInv, OnceInv, Settable, Running, Filling, Wait, Body, Fill, Configs
<1>3. OnceInv'
  BY ConstantsAssumption DEF LiveInv, configVars, ghosts, InitFill, Goto, Exit, TypeOK, OnceInv,
         PlaceInv, Running, Filling, Settable, Wait, Fill, Configs
<1>4. OriginalInv'
  BY ConstantsAssumption DEF LiveInv, configVars, ghosts, InitFill, Goto, Exit, TypeOK,
         OriginalInv, PlaceInv, OnceInv, Original, Settable, Running, Filling, Configs
<1>8. PICK key \in Nat :
          /\ key = fresh \/ key \in {SessionTicketKey[c] : c \in Configs}
          /\ SessionTicketKey' = [SessionTicketKey EXCEPT ![target[g]] = key]
          /\ fresh' = IF key = fresh THEN fresh + 1 ELSE fresh
          /\ sessionTicketKeys' = [sessionTicketKeys EXCEPT ![target[g]] =
                IF found[g] # None THEN sessionTicketKeys[found[g]] ELSE <<key>>]
  BY DEF LiveInv, TypeOK, InitFill
<1>9. /\ target[g] \in Configs /\ found[g] \in Configs \cup {None} /\ fresh \in Nat
      /\ setKeys' = setKeys /\ lastSet' = lastSet
      /\ \A c \in Configs : sessionTicketKeys[c] \in Seq(Nat) /\ SessionTicketKey[c] \in Nat
  BY DEF LiveInv, TypeOK, InitFill, ghosts
<1>10. /\ sessionTicketKeys'[target[g]] = IF found[g] # None THEN sessionTicketKeys[found[g]] ELSE <<key>>
       /\ \A c \in Configs \ {target[g]} : sessionTicketKeys'[c] = sessionTicketKeys[c]
  BY <1>8, <1>9 DEF LiveInv, TypeOK
<1>11. key \notin setKeys /\ key < fresh' /\ fresh <= fresh' /\ fresh' \in Nat
  BY <1>8, <1>9 DEF LiveInv, TypeOK, FreshInv
<1>5. FreshInv'
  <2>1. \A c \in Configs : \A i \in 1..Len(sessionTicketKeys[c]) : sessionTicketKeys[c][i] < fresh'
    BY <1>9, <1>11 DEF LiveInv, FreshInv
  <2>2. \A i \in 1..Len(<<key>>) : <<key>>[i] < fresh'
    BY <1>11
  <2>3. \A c \in Configs : \A i \in 1..Len(sessionTicketKeys'[c]) : sessionTicketKeys'[c][i] < fresh'
    BY <2>1, <2>2, <1>9, <1>10
  <2>4. \A c \in Configs : SessionTicketKey'[c] < fresh' /\ SessionTicketKey'[c] \notin setKeys
    BY SMTT(30), <1>8, <1>9, <1>11 DEF LiveInv, TypeOK, FreshInv
  <2> QED  BY <2>3, <2>4, <1>9, <1>11 DEF LiveInv, TypeOK, FreshInv
<1>6. HeadInv'
  BY ConstantsAssumption, <1>9, <1>10, <1>11 DEF LiveInv, PlaceInv, OriginalInv, InitFill, HeadInv
<1>7. TicketInv'
  <2>1. once[target[g]] = "running"
    BY DEF LiveInv, OnceInv, Running, Filling, InitFill
  <2> SUFFICES ASSUME NEW t \in tickets
               PROVE  /\ once'[t.by] = "done" /\ t.key < fresh'
                      /\ sessionTicketKeys'[t.by] = sessionTicketKeys[t.by]
    BY SMTT(30), <1>9 DEF LiveInv, TicketInv, Positions, InitFill, ghosts
  <2>2. /\ t.by \in Configs /\ once[t.by] = "done" /\ t.key \in Nat /\ t.key < fresh
    BY DEF LiveInv, TypeOK, TicketInv
  <2>3. once \in [Configs -> {"new", "running", "done"}] /\ once' = [once EXCEPT ![target[g]] = "done"]
    BY DEF LiveInv, TypeOK, InitFill
  <2>4. t.by # target[g]
    BY <2>1, <2>2
  <2>5. once'[t.by] = "done"
    BY <2>2, <2>3, <2>4, <1>9
  <2>6. sessionTicketKeys'[t.by] = sessionTicketKeys[t.by]
    BY <2>2, <2>4, <1>10
  <2>7. t.key < fresh'
    BY <2>2, <1>9, <1>11
  <2> QED  BY <2>5, <2>6, <2>7
<1> QED  BY <1>1, <1>2, <1>3, <1>4, <1>5, <1>6, <1>7 DEF LiveInv

\* Clone copies the keys to a Config that nobody has used yet.
LEMMA CopyConfigStep ==
  ASSUME NEW g \in G, LiveInv, CopyConfig(g)
  PROVE  LiveInv'
<1>1. TypeOK'
  <2>1. pc' \in [G -> Points]
    BY DEF LiveInv, TypeOK, Points, CopyConfig, Goto
  <2>2. /\ sessionTicketKeys' \in [Configs -> Seq(Nat)] /\ SessionTicketKey' \in [Configs -> Nat]
        /\ lastSet' \in [Configs -> Nat] /\ originalConfig' = originalConfig
    BY DEF LiveInv, TypeOK, CopyConfig, configVars, Configs
  <2>3. SessionTicketsDisabled' \in [Configs -> BOOLEAN]
    BY DEF LiveInv, TypeOK, CopyConfig, configVars, Configs
  <2>4. cloned' \in BOOLEAN
    BY DEF LiveInv, TypeOK, CopyConfig
  <2> QED  BY <2>1, <2>2, <2>3, <2>4 DEF LiveInv, TypeOK, CopyConfig
<1>2. PlaceInv'
  BY ConstantsAssumption DEF LiveInv, configVars, ghosts, CopyConfig, At, Goto, TypeOK, Points,
         PlaceInv, OnceInv, Settable, Running, Filling, Wait, Body, Fill, Exit, Configs
<1>3. OnceInv'
  BY ConstantsAssumption DEF LiveInv, configVars, ghosts, CopyConfig, At, Goto, TypeOK, OnceInv,
         PlaceInv, Running, Filling, Settable, Wait, Fill, Configs
<1>4. OriginalInv'
  BY ConstantsAssumption DEF LiveInv, configVars, ghosts, CopyConfig, At, Goto, TypeOK,
         OriginalInv, PlaceInv, OnceInv, Original, Settable, Running, Filling, Configs
<1>5. FreshInv'
  BY SMTT(30), ConstantsAssumption DEF LiveInv, configVars, ghosts, CopyConfig, At, Goto, TypeOK, FreshInv,
         Configs
<1>6. HeadInv'
  BY ConstantsAssumption DEF LiveInv, configVars, ghosts, CopyConfig, At, Goto, TypeOK, HeadInv,
         FreshInv, Configs
<1>7. TicketInv'
  <2> SUFFICES ASSUME NEW t \in tickets
               PROVE  /\ sessionTicketKeys'[t.by] = sessionTicketKeys[t.by]
                      /\ lastSet'[t.by] = lastSet[t.by]
    BY DEF LiveInv, TicketInv, Positions, CopyConfig
  <2>1. t.by \in Configs /\ once[t.by] = "done"
    BY DEF LiveInv, TypeOK, TicketInv
  <2>2. cloned \/ t.by # Copy
    BY <2>1 DEF LiveInv, OnceInv
  <2> QED  BY <2>1, <2>2 DEF LiveInv, TypeOK, CopyConfig, configVars
<1> QED  BY <1>1, <1>2, <1>3, <1>4, <1>5, <1>6, <1>7 DEF LiveInv

\* GetConfigForClient may return a Config that takes its keys from an initialised one.
LEMMA ClientHelloStep ==
  ASSUME NEW g \in G, LiveInv, ClientHello(g)
  PROVE  LiveInv'
<1>1. TypeOK'
  <2>1. pc' \in [G -> Points]
    BY ZenonT(60), Tables DEF LiveInv, TypeOK, Points, ClientHello, Goto, Initialise
  <2>2. /\ originalConfig' \in [Configs -> Configs \cup {None}] /\ target' \in [G -> Configs]
        /\ config' \in [G -> Configs]
    BY ZenonT(60) DEF LiveInv, TypeOK, ClientHello, Initialise, Configs
  <2> QED  BY <2>1, <2>2 DEF LiveInv, TypeOK, ClientHello, ghosts
<1>2. PlaceInv'
  BY ConstantsAssumption DEF LiveInv, configVars, ghosts, ClientHello, At, Goto, Initialise,
         TypeOK, Points, PlaceInv, OnceInv, Settable, Running, Filling, Wait, Body, Fill, Exit,
         Configs
<1>3. OnceInv'
  <2>1. ~Running(g)'
    BY DEF LiveInv, TypeOK, ClientHello, Initialise, Goto, Running, Filling
  <2>2. \A h \in G \ {g} : (Running(h)' <=> Running(h)) /\ target'[h] = target[h]
    BY DEF LiveInv, TypeOK, ClientHello, Initialise, Goto, Running, Filling
  <2> QED  BY <2>1, <2>2 DEF LiveInv, OnceInv, ClientHello, Initialise
<1>4. OriginalInv'
  BY ConstantsAssumption DEF LiveInv, configVars, ghosts, ClientHello, At, Goto, Initialise,
         TypeOK, OriginalInv, PlaceInv, OnceInv, Original, Settable, Running, Filling, Configs
<1>5. FreshInv'
  BY ConstantsAssumption DEF LiveInv, configVars, ghosts, ClientHello, At, Goto, Initialise,
         TypeOK, FreshInv, Configs
<1>6. HeadInv'
  BY ConstantsAssumption DEF LiveInv, configVars, ghosts, ClientHello, At, Goto, Initialise,
         TypeOK, HeadInv, FreshInv, Configs
<1>7. TicketInv'
  BY ConstantsAssumption DEF LiveInv, configVars, ghosts, ClientHello, At, Goto, Initialise,
         TypeOK, TicketInv, Positions, PlaceInv, OnceInv, HeadInv, FreshInv, Configs
<1> QED  BY <1>1, <1>2, <1>3, <1>4, <1>5, <1>6, <1>7 DEF LiveInv

\* A ticket is looked up; nothing changes.
LEMMA ResumeStep ==
  ASSUME NEW g \in G, LiveInv, Resume(g)
  PROVE  LiveInv'
<1>1. TypeOK'
  BY ConstantsAssumption DEF LiveInv, configVars, ghosts, Resume, At, Goto, TypeOK, Points, Wait,
         Fill, Configs
<1>2. PlaceInv'
  BY SMTT(30), ConstantsAssumption DEF LiveInv, configVars, ghosts, Resume, At, Goto, TypeOK, Points,
         PlaceInv, OnceInv, Settable, Running, Filling, Wait, Body, Fill, Exit, Configs
<1>3. OnceInv'
  <2>1. ~Running(g)'
    BY DEF LiveInv, TypeOK, Resume, Goto, Running, Filling
  <2>2. \A h \in G \ {g} : (Running(h)' <=> Running(h)) /\ target'[h] = target[h]
    BY DEF LiveInv, TypeOK, Resume, Goto, Running, Filling
  <2> QED  BY <2>1, <2>2 DEF LiveInv, OnceInv, Resume
<1>4. OriginalInv'
  BY ConstantsAssumption DEF LiveInv, configVars, ghosts, Resume, At, Goto, TypeOK, OriginalInv,
         PlaceInv, OnceInv, Original, Settable, Running, Filling, Configs
<1>5. FreshInv'
  BY ConstantsAssumption DEF LiveInv, configVars, ghosts, Resume, At, Goto, TypeOK, FreshInv,
         Configs
<1>6. HeadInv'
  BY ConstantsAssumption DEF LiveInv, configVars, ghosts, Resume, At, Goto, TypeOK, HeadInv,
         FreshInv, Configs
<1>7. TicketInv'
  BY SMTT(30), ConstantsAssumption DEF LiveInv, configVars, ghosts, Resume, At, Goto, TypeOK, TicketInv,
         Positions, PlaceInv, OnceInv, HeadInv, FreshInv, Configs
<1> QED  BY <1>1, <1>2, <1>3, <1>4, <1>5, <1>6, <1>7 DEF LiveInv

\* A ticket under the first key.
LEMMA IssueStep ==
  ASSUME NEW g \in G, LiveInv, Issue(g)
  PROVE  LiveInv'
<1>1. TypeOK'
  <2>1. pc' \in [G -> Points]
    BY DEF LiveInv, TypeOK, Points, Issue, Goto
  <2>2. config[g] \in Configs /\ sets[config[g]] \in Nat /\ sessionTicketKeys[config[g]] \in Seq(Nat)
    BY DEF LiveInv, TypeOK
  <2>3. tickets' \subseteq [key : Nat, by : Configs, sets : Nat]
    <3>1. sessionTicketKeys[config[g]] # <<>> => Head(sessionTicketKeys[config[g]]) \in Nat
      BY <2>2
    <3> QED  BY <2>2, <3>1 DEF LiveInv, TypeOK, Issue
  <2>4. panicked' \in BOOLEAN
    BY DEF LiveInv, TypeOK, Issue
  <2> QED  BY <2>1, <2>3, <2>4 DEF LiveInv, TypeOK, Issue, configVars, ghosts
<1>2. PlaceInv'
  BY ConstantsAssumption DEF LiveInv, configVars, ghosts, Issue, At, Goto, TypeOK, Points,
         PlaceInv, OnceInv, Settable, Running, Filling, Wait, Body, Fill, Exit, Configs
<1>3. OnceInv'
  BY ConstantsAssumption DEF LiveInv, configVars, ghosts, Issue, At, Goto, TypeOK, OnceInv,
         PlaceInv, Running, Filling, Settable, Wait, Fill, Configs
<1>4. OriginalInv'
  BY ConstantsAssumption DEF LiveInv, configVars, ghosts, Issue, At, Goto, TypeOK, OriginalInv,
         PlaceInv, OnceInv, Original, Settable, Running, Filling, Configs
<1>5. FreshInv'
  BY ConstantsAssumption DEF LiveInv, configVars, ghosts, Issue, At, Goto, TypeOK, FreshInv, Configs
<1>6. HeadInv'
  BY ConstantsAssumption DEF LiveInv, configVars, ghosts, Issue, At, Goto, TypeOK, HeadInv,
         FreshInv, Configs
<1>7. TicketInv'
  <2> SUFFICES ASSUME NEW t \in tickets', t \notin tickets
               PROVE  /\ once[t.by] = "done" /\ t.sets = sets[t.by] /\ t.key < fresh
                      /\ Positions(t.by, t.key) # {} /\ t.by \in Configs
                      /\ t.by # Returned /\ t.key \in setKeys => t.key = lastSet[t.by]
    BY SMTT(30) DEF LiveInv, TypeOK, TicketInv, Positions, Issue, configVars, ghosts
  <2> DEFINE c == config[g]
  <2>1. /\ c \in Configs /\ sessionTicketKeys[c] \in Seq(Nat) /\ sessionTicketKeys[c] # <<>>
        /\ t.key = sessionTicketKeys[c][1] /\ t.by = c /\ t.sets = sets[c]
    BY DEF LiveInv, TypeOK, Issue
  <2>2. 1 \in 1..Len(sessionTicketKeys[c]) /\ 1 \in Positions(c, t.key)
    BY <2>1 DEF Positions
  <2>3. once[c] = "done"
    BY DEF LiveInv, PlaceInv, Issue, At
  <2> QED  BY <2>1, <2>2, <2>3 DEF LiveInv, FreshInv, HeadInv
<1> QED  BY <1>1, <1>2, <1>3, <1>4, <1>5, <1>6, <1>7 DEF LiveInv

\* The initial states satisfy the invariant.
LEMMA LiveInit == Init => LiveInv
<1> SUFFICES ASSUME Init PROVE LiveInv
  OBVIOUS
<1>1. TypeOK
  <2>1. SessionTicketsDisabled \in [Configs -> BOOLEAN] /\ SessionTicketKey \in [Configs -> Nat]
    BY DEF Init, PresetKey
  <2>2. /\ sessionTicketKeys \in [Configs -> Seq(Nat)] /\ originalConfig \in [Configs -> Configs \cup {None}]
        /\ once \in [Configs -> {"new", "running", "done"}]
    BY DEF Init
  <2>3. /\ pc \in [G -> Points] /\ config \in [G -> Configs] /\ target \in [G -> Configs]
        /\ found \in [G -> Configs \cup {None}]
    BY DEF Init, Points, Configs
  <2> QED  BY <2>1, <2>2, <2>3 DEF Init, TypeOK
<1>2. PlaceInv /\ OnceInv /\ OriginalInv
  BY ConstantsAssumption DEF Init, PlaceInv, OnceInv, OriginalInv, Running, Filling, Configs
<1>3. FreshInv
  BY DEF Init, FreshInv, PresetKey
<1>4. HeadInv /\ TicketInv
  BY DEF Init, HeadInv, TicketInv, Configs
<1> QED  BY <1>1, <1>2, <1>3, <1>4 DEF LiveInv

\* So does what any step makes of a state that does.
LEMMA LiveStep == LiveInv /\ [Next]_vars => LiveInv'
<1> SUFFICES ASSUME LiveInv, [Next]_vars PROVE LiveInv'
  OBVIOUS
<1>1. ASSUME NEW g \in G,
             \/ SetSessionTicketKeys(g) \/ Serve(g) \/ Clone(g)
             \/ Once(g) \/ InitCheck(g) \/ InitFill(g) \/ CopyConfig(g)
             \/ ClientHello(g) \/ Resume(g) \/ Issue(g)
      PROVE  LiveInv'
  BY <1>1, SetSessionTicketKeysStep, ServeStep, CloneStep, OnceStep, InitCheckStep, InitFillStep,
     CopyConfigStep, ClientHelloStep, ResumeStep, IssueStep
<1>2. CASE UNCHANGED vars
  <2> USE <1>2 DEF vars, configVars, ghosts
  <2>1. TypeOK' /\ PlaceInv' /\ OnceInv'
    BY DEF LiveInv, TypeOK, PlaceInv, OnceInv, Running, Filling, Settable
  <2>2. OriginalInv' /\ FreshInv'
    BY DEF LiveInv, OriginalInv, FreshInv, Original, Settable
  <2>3. HeadInv' /\ TicketInv'
    BY DEF LiveInv, HeadInv, TicketInv, Positions
  <2> QED  BY <2>1, <2>2, <2>3 DEF LiveInv
<1> QED  BY <1>1, <1>2 DEF Next, Done

-----------------------------------------------------------------------------
(* Sharing.                                                                *)

\* A rotation leaves a key.
LEMMA SetSessionTicketKeysShares ==
  ASSUME NEW g \in G, LiveInv, SharedInv, SetSessionTicketKeys(g)
  PROVE  SharedInv'
<1>1. Uniform'
  BY ConstantsAssumption DEF LiveInv, TypeOK, SharedInv, Uniform, SetSessionTicketKeys,
         CallBegins, At, configVars, Configs
<1>2. ~panicked'
  BY ConstantsAssumption DEF LiveInv, TypeOK, PlaceInv, SharedInv, Uniform, EnabledInv, KeyInv,
         SetSessionTicketKeys, CallBegins, At
<1>3. EnabledInv'
  BY Tables, ConstantsAssumption DEF LiveInv, TypeOK, SharedInv, Uniform, EnabledInv, Filling,
         SetSessionTicketKeys, CallBegins, At, configVars, Configs
<1>4. KeyInv'
  <2>1. PICK c \in Configs : sessionTicketKeys' = [sessionTicketKeys EXCEPT ![c] =
             IF lastSet[c] = 0 THEN <<fresh>> ELSE <<fresh, lastSet[c]>>]
    BY DEF SetSessionTicketKeys, Settable, Configs
  <2>2. sessionTicketKeys'[c] # <<>> /\ \A d \in Configs \ {c} : sessionTicketKeys'[d] = sessionTicketKeys[d]
    <3>1. <<fresh>> # <<>> /\ <<fresh, lastSet[c]>> # <<>>
      OBVIOUS
    <3> QED  BY <2>1, <3>1, Zenon DEF LiveInv, TypeOK
  <2> QED  BY <2>2 DEF SharedInv, KeyInv, Filling, SetSessionTicketKeys, Configs
<1>5. SameInv'
  BY Tables, ConstantsAssumption DEF LiveInv, TypeOK, PlaceInv, OnceInv, OriginalInv, Original,
         SharedInv, KeyInv, SameInv, EnabledInv, Running, Filling, SetSessionTicketKeys,
         CallBegins, At, configVars, ghosts, Configs
<1> QED  BY <1>1, <1>2, <1>3, <1>4, <1>5 DEF SharedInv

\* A new connection changes no key.
LEMMA ServeShares ==
  ASSUME NEW g \in G, LiveInv, SharedInv, Serve(g)
  PROVE  SharedInv'
<1>1. Uniform'
  BY ConstantsAssumption DEF LiveInv, TypeOK, SharedInv, Uniform, Serve, CallBegins, At,
         Initialise, Goto, configVars, Configs
<1>2. ~panicked'
  BY ConstantsAssumption DEF LiveInv, TypeOK, PlaceInv, SharedInv, Uniform, EnabledInv, KeyInv,
         Serve, CallBegins, At, Initialise, Goto
<1>3. EnabledInv'
  BY Tables, ConstantsAssumption DEF LiveInv, TypeOK, SharedInv, Uniform, EnabledInv, Filling,
         Serve, CallBegins, At, Initialise, Goto, configVars, Configs
<1>4. KeyInv'
  BY Tables, ConstantsAssumption DEF LiveInv, TypeOK, PlaceInv, OnceInv, OriginalInv, Original,
         SharedInv, Uniform, EnabledInv, KeyInv, Running, Filling, Settable, Serve, CallBegins,
         At, Initialise, Goto, configVars, Configs
<1>5. SameInv'
  BY Tables, ConstantsAssumption DEF LiveInv, TypeOK, PlaceInv, OnceInv, OriginalInv, Original,
         SharedInv, KeyInv, SameInv, EnabledInv, Running, Filling, Serve, CallBegins, At,
         Initialise, Goto, configVars, ghosts, Configs
<1> QED  BY <1>1, <1>2, <1>3, <1>4, <1>5 DEF SharedInv

\* Nor does the beginning of Clone.
LEMMA CloneShares ==
  ASSUME NEW g \in G, LiveInv, SharedInv, Clone(g)
  PROVE  SharedInv'
<1>1. Uniform'
  BY ConstantsAssumption DEF LiveInv, TypeOK, SharedInv, Uniform, Clone, CallBegins, At,
         Initialise, Goto, configVars, Configs
<1>2. ~panicked'
  BY ConstantsAssumption DEF LiveInv, TypeOK, PlaceInv, SharedInv, Uniform, EnabledInv, KeyInv,
         Clone, CallBegins, At, Initialise, Goto
<1>3. EnabledInv'
  BY Tables, ConstantsAssumption DEF LiveInv, TypeOK, SharedInv, Uniform, EnabledInv, Filling,
         Clone, CallBegins, At, Initialise, Goto, configVars, Configs
<1>4. KeyInv'
  BY Tables, ConstantsAssumption DEF LiveInv, TypeOK, PlaceInv, OnceInv, OriginalInv, Original,
         SharedInv, Uniform, EnabledInv, KeyInv, Running, Filling, Settable, Clone, CallBegins,
         At, Initialise, Goto, configVars, Configs
<1>5. SameInv'
  BY Tables, ConstantsAssumption DEF LiveInv, TypeOK, PlaceInv, OnceInv, OriginalInv, Original,
         SharedInv, KeyInv, SameInv, EnabledInv, Running, Filling, Clone, CallBegins, At,
         Initialise, Goto, configVars, ghosts, Configs
<1> QED  BY <1>1, <1>2, <1>3, <1>4, <1>5 DEF SharedInv

\* serverInitOnce changes no key.
LEMMA OnceShares ==
  ASSUME NEW g \in G, LiveInv, SharedInv, Once(g)
  PROVE  SharedInv'
<1>1. Uniform'
  BY ConstantsAssumption DEF LiveInv, TypeOK, SharedInv, Uniform, Once, MayInit, Goto, configVars,
         Configs
<1>2. ~panicked'
  BY ConstantsAssumption DEF LiveInv, TypeOK, PlaceInv, SharedInv, Uniform, EnabledInv, KeyInv,
         Once, MayInit, Goto
<1>3. EnabledInv'
  BY Tables, ConstantsAssumption DEF LiveInv, TypeOK, SharedInv, Uniform, EnabledInv, Filling,
         Once, MayInit, Goto, configVars, Configs
<1>4. KeyInv'
  <2>1. ASSUME NEW h \in G, Filling(h)' PROVE Filling(h)
    BY <2>1, Tables DEF LiveInv, TypeOK, Once, Goto, Filling
  <2>2. \A c \in Configs : once'[c] = "done" => once[c] = "done"
    BY DEF LiveInv, TypeOK, Once
  <2> QED  BY <2>1, <2>2 DEF SharedInv, KeyInv, Once, configVars
<1>5. SameInv'
  BY Tables, ConstantsAssumption DEF LiveInv, TypeOK, PlaceInv, OnceInv, OriginalInv, Original,
         SharedInv, KeyInv, SameInv, EnabledInv, Running, Filling, Once, MayInit, Goto,
         configVars, ghosts, Configs
<1> QED  BY <1>1, <1>2, <1>3, <1>4, <1>5 DEF SharedInv

\* A Config is left without a key of its own only if tickets are disabled, or to be filled.
LEMMA InitCheckShares ==
  ASSUME NEW g \in G, LiveInv, SharedInv, InitCheck(g)
  PROVE  SharedInv'
<1>1. Uniform'
  BY ConstantsAssumption DEF LiveInv, TypeOK, SharedInv, Uniform, InitCheck, Goto, configVars,
         Configs
<1>2. ~panicked'
  BY ConstantsAssumption DEF LiveInv, TypeOK, PlaceInv, SharedInv, Uniform, EnabledInv, KeyInv,
         InitCheck, Goto
<1>3. EnabledInv'
  BY Tables, ConstantsAssumption DEF LiveInv, TypeOK, SharedInv, Uniform, EnabledInv, Filling,
         InitCheck, Goto, configVars, Configs
<1>4. KeyInv'
  <2>1. \A h \in G \ {g} : Filling(h)' => Filling(h)
    BY DEF LiveInv, TypeOK, Filling, InitCheck, Goto
  <2>2. Filling(g)' => sessionTicketKeys[target[g]] = <<>>
    BY Tables DEF LiveInv, TypeOK, Filling, InitCheck, Goto
  <2>3. target[g] = Copy => cloned
    BY Tables, ConstantsAssumption DEF LiveInv, PlaceInv, InitCheck, Settable
  <2>4. target[g] \in Configs /\ \A c \in Configs : once'[c] = "done" =>
          once[c] = "done" \/ SessionTicketsDisabled[c] \/ sessionTicketKeys[c] # <<>>
    BY DEF LiveInv, TypeOK, InitCheck
  <2> QED  BY <2>1, <2>2, <2>3, <2>4 DEF SharedInv, Uniform, KeyInv, InitCheck
<1>5. SameInv'
  BY SMTT(30), Tables, ConstantsAssumption DEF LiveInv, TypeOK, PlaceInv, OnceInv, OriginalInv, Original,
         SharedInv, KeyInv, SameInv, EnabledInv, Running, Filling, InitCheck, Goto, configVars,
         ghosts, Configs
<1> QED  BY <1>1, <1>2, <1>3, <1>4, <1>5 DEF SharedInv

\* The key stored is the first one of all, or comes from a Config that has it from Orig.
LEMMA InitFillShares ==
  ASSUME NEW g \in G, LiveInv, SharedInv, InitFill(g)
  PROVE  SharedInv'
<1>1. Uniform'
  BY ConstantsAssumption DEF LiveInv, TypeOK, SharedInv, Uniform, InitFill, Goto, configVars,
         Configs
<1>2. ~panicked'
  BY ConstantsAssumption DEF LiveInv, TypeOK, PlaceInv, SharedInv, Uniform, EnabledInv, KeyInv,
         InitFill, Goto
<1>3. EnabledInv'
  BY Tables, ConstantsAssumption DEF LiveInv, TypeOK, SharedInv, Uniform, EnabledInv, Filling,
         InitFill, Goto, configVars, Configs
<1>4. KeyInv'
  BY SMTT(30), Tables, ConstantsAssumption DEF LiveInv, TypeOK, PlaceInv, OnceInv, OriginalInv, Original,
         SharedInv, Uniform, EnabledInv, KeyInv, Running, Filling, Settable, InitFill, Goto,
         configVars, Configs
<1>5. SameInv'
  <2> SUFFICES ASSUME setKeys = {}
               PROVE  \A c \in Configs : sessionTicketKeys'[c] # <<>> =>
                        once'[Orig] = "done" /\ sessionTicketKeys'[c] = sessionTicketKeys'[Orig]
    BY DEF SameInv, InitFill, ghosts
  <2>1. /\ target[g] \in {Orig, Returned} /\ once[target[g]] = "running" /\ ~SessionTicketsDisabled[Orig]
        /\ once' = [once EXCEPT ![target[g]] = "done"]
    BY DEF LiveInv, TypeOK, OnceInv, SharedInv, EnabledInv, KeyInv, Running, Filling, InitFill, Configs
  <2>2. \A c \in Configs \ {target[g]} : sessionTicketKeys'[c] = sessionTicketKeys[c]
    BY DEF LiveInv, TypeOK, InitFill
  <2>3. CASE target[g] = Orig
    BY <2>1, <2>3, <2>2 DEF SharedInv, SameInv, LiveInv, TypeOK
  <2>4. CASE target[g] = Returned
    BY <2>4, ConstantsAssumption, <2>1, <2>2 DEF LiveInv, PlaceInv, OriginalInv, Original, Settable, InitFill,
       TypeOK, Configs, SharedInv, KeyInv, SameInv
  <2> QED  BY <2>1, <2>3, <2>4
<1> QED  BY <1>1, <1>2, <1>3, <1>4, <1>5 DEF SharedInv

\* The clone has the keys of Orig.
LEMMA CopyConfigShares ==
  ASSUME NEW g \in G, LiveInv, SharedInv, CopyConfig(g)
  PROVE  SharedInv'
<1>1. Uniform'
  BY ConstantsAssumption DEF LiveInv, TypeOK, SharedInv, Uniform, CopyConfig, At, Goto,
         configVars, Configs
<1>2. ~panicked'
  BY ConstantsAssumption DEF LiveInv, TypeOK, PlaceInv, SharedInv, Uniform, EnabledInv, KeyInv,
         CopyConfig, At, Goto
<1>3. EnabledInv'
  BY Tables, ConstantsAssumption DEF LiveInv, TypeOK, SharedInv, Uniform, EnabledInv, Filling,
         CopyConfig, At, Goto, configVars, Configs
<1>4. KeyInv'
  BY SMTT(30), Tables, ConstantsAssumption DEF LiveInv, TypeOK, PlaceInv, OnceInv, OriginalInv, Original,
         SharedInv, Uniform, EnabledInv, KeyInv, Running, Filling, Settable, CopyConfig, At, Goto,
         configVars, Configs
<1>5. SameInv'
  BY SMTT(30), Tables, ConstantsAssumption DEF LiveInv, TypeOK, PlaceInv, OnceInv, OriginalInv, Original,
         SharedInv, KeyInv, SameInv, EnabledInv, Running, Filling, CopyConfig, At, Goto,
         configVars, ghosts, Configs
<1> QED  BY <1>1, <1>2, <1>3, <1>4, <1>5 DEF SharedInv

\* Another Config for the connection.
LEMMA ClientHelloShares ==
  ASSUME NEW g \in G, LiveInv, SharedInv, ClientHello(g)
  PROVE  SharedInv'
<1>1. Uniform'
  BY ConstantsAssumption DEF LiveInv, TypeOK, SharedInv, Uniform, ClientHello, At, Goto,
         Initialise, configVars, Configs
<1>2. ~panicked'
  BY ConstantsAssumption DEF LiveInv, TypeOK, PlaceInv, SharedInv, Uniform, EnabledInv, KeyInv,
         ClientHello, At, Goto, Initialise
<1>3. EnabledInv'
  BY Tables, ConstantsAssumption DEF LiveInv, TypeOK, SharedInv, Uniform, EnabledInv, Filling,
         ClientHello, At, Goto, Initialise, configVars, Configs
<1>4. KeyInv'
  BY SMTT(30), Tables, ConstantsAssumption DEF LiveInv, TypeOK, PlaceInv, OnceInv, OriginalInv, Original,
         SharedInv, Uniform, EnabledInv, KeyInv, Running, Filling, Settable, ClientHello, At,
         Goto, Initialise, configVars, Configs
<1>5. SameInv'
  BY Tables, ConstantsAssumption DEF LiveInv, TypeOK, PlaceInv, OnceInv, OriginalInv, Original,
         SharedInv, KeyInv, SameInv, EnabledInv, Running, Filling, ClientHello, At, Goto,
         Initialise, configVars, ghosts, Configs
<1> QED  BY <1>1, <1>2, <1>3, <1>4, <1>5 DEF SharedInv

\* A ticket is issued only if tickets are enabled.
LEMMA ResumeShares ==
  ASSUME NEW g \in G, LiveInv, SharedInv, Resume(g)
  PROVE  SharedInv'
<1>1. Uniform'
  BY ConstantsAssumption DEF LiveInv, TypeOK, SharedInv, Uniform, Resume, At, Goto, configVars,
         Configs
<1>2. ~panicked'
  BY ConstantsAssumption DEF LiveInv, TypeOK, PlaceInv, SharedInv, Uniform, EnabledInv, KeyInv,
         Resume, At, Goto
<1>3. EnabledInv'
  BY DEF LiveInv, TypeOK, Resume, Goto, Accepts, Filling, SharedInv, Uniform, EnabledInv, configVars
<1>4. KeyInv'
  BY DEF LiveInv, TypeOK, Filling, Resume, Goto, SharedInv, KeyInv, configVars
<1>5. SameInv'
  BY Tables, ConstantsAssumption DEF LiveInv, TypeOK, PlaceInv, OnceInv, OriginalInv, Original,
         SharedInv, KeyInv, SameInv, EnabledInv, Running, Filling, Resume, At, Goto, configVars,
         ghosts, Configs
<1> QED  BY <1>1, <1>2, <1>3, <1>4, <1>5 DEF SharedInv

\* And then there is a key.
LEMMA IssueShares ==
  ASSUME NEW g \in G, LiveInv, SharedInv, Issue(g)
  PROVE  SharedInv'
<1>1. Uniform'
  BY ConstantsAssumption DEF LiveInv, TypeOK, SharedInv, Uniform, Issue, At, Goto, configVars,
         Configs
<1>2. ~panicked'
  BY ConstantsAssumption DEF LiveInv, TypeOK, PlaceInv, SharedInv, Uniform, EnabledInv, KeyInv,
         Issue, At, Goto
<1>3. EnabledInv'
  BY Tables, ConstantsAssumption DEF LiveInv, TypeOK, SharedInv, Uniform, EnabledInv, Filling,
         Issue, At, Goto, configVars, Configs
<1>4. KeyInv'
  BY Tables, ConstantsAssumption DEF LiveInv, TypeOK, PlaceInv, OnceInv, OriginalInv, Original,
         SharedInv, Uniform, EnabledInv, KeyInv, Running, Filling, Settable, Issue, At, Goto,
         configVars, Configs
<1>5. SameInv'
  BY Tables, ConstantsAssumption DEF LiveInv, TypeOK, PlaceInv, OnceInv, OriginalInv, Original,
         SharedInv, KeyInv, SameInv, EnabledInv, Running, Filling, Issue, At, Goto, configVars,
         ghosts, Configs
<1> QED  BY <1>1, <1>2, <1>3, <1>4, <1>5 DEF SharedInv

\* No Config has keys at first.
LEMMA SharedInit ==
  ASSUME Disabled = {} \/ Disabled = Configs, Init
  PROVE  SharedInv
  BY DEF Init, SharedInv, Uniform, EnabledInv, KeyInv, SameInv, Filling, Configs

\* Any step keeps the second invariant, given the first.
LEMMA SharedStep == LiveInv /\ SharedInv /\ [Next]_vars => SharedInv'
<1> SUFFICES ASSUME LiveInv, SharedInv, [Next]_vars PROVE SharedInv'
  OBVIOUS
<1>1. ASSUME NEW g \in G,
             \/ SetSessionTicketKeys(g) \/ Serve(g) \/ Clone(g)
             \/ Once(g) \/ InitCheck(g) \/ InitFill(g) \/ CopyConfig(g)
             \/ ClientHello(g) \/ Resume(g) \/ Issue(g)
      PROVE  SharedInv'
  BY <1>1, SetSessionTicketKeysShares, ServeShares, CloneShares, OnceShares, InitCheckShares,
     InitFillShares, CopyConfigShares, ClientHelloShares, ResumeShares, IssueShares
<1>2. CASE UNCHANGED vars
  BY <1>2 DEF vars, configVars, ghosts, SharedInv, Uniform, EnabledInv, KeyInv, SameInv, Filling
<1> QED  BY <1>1, <1>2 DEF Next, Done

-----------------------------------------------------------------------------
(* The theorems.                                                           *)

\* Every variable keeps its type, for any goroutines and calls (Config's fields).
THEOREM TypeCorrect == Spec => []TypeOK
<1>1. LiveInv => TypeOK
  BY DEF LiveInv
<1> QED  BY <1>1, LiveInit, LiveStep, PTL DEF Spec

\* What the first invariant says of tickets.
LEMMA LiveInvImplies == LiveInv => TicketsLive
<1> SUFFICES ASSUME LiveInv, NEW t \in tickets
             PROVE  /\ t.sets = sets[t.by] => Positions(t.by, t.key) # {}
                    /\ t.key \in setKeys /\ sets[t.by] <= t.sets + 1 => Positions(t.by, t.key) # {}
  BY DEF TicketsLive, TicketAccepted, TicketOutlivesRotation
<1>1. t.by \in Configs /\ t.sets \in Nat /\ sets[t.by] \in Nat
  BY DEF LiveInv, TypeOK
<1> QED  BY <1>1 DEF LiveInv, TicketInv

\* A ticket stays good until a rotation, and through one if its key was set, whoever
\* initialises, clones, returns and rotates Configs at the same time (encryptTicket, decryptTicket).
THEOREM TicketsStayGood == Spec => []TicketsLive
  BY LiveInit, LiveStep, LiveInvImplies, PTL DEF Spec

\* What the second says of Configs in use.
LEMMA SharedInvImplies == LiveInv /\ SharedInv => KeysShared
BY DEF InUse, SharedInv, Uniform, KeyInv, KeysShared, SameInv

\* Configs in use have a key, and until a rotation the same one, if tickets are disabled in
\* all of them or in none (serverInit, Clone, GetConfigForClient).
THEOREM KeysAreShared ==
  ASSUME Disabled = {} \/ Disabled = Configs
  PROVE  Spec => []KeysShared
<1>1. Init => SharedInv
  BY SharedInit
<1> QED  BY <1>1, LiveInit, LiveStep, SharedStep, SharedInvImplies, PTL DEF Spec


-----------------------------------------------------------------------------
(* The client's session cache.                                             *)

-----------------------------------------------------------------------------
(* The inductive invariant.                                                *)

\* The list holds the elements allocated so far, each one once.
Distinct  == \A i, j \in 1..Len(q) : q[i] = q[j] => i = j
Allocated == Len(q) <= Capacity /\ \A i \in 1..Len(q) : q[i] \in 1..Len(q)

\* An element of the list has a key and a state, and the map leads to it.
KeyOf(i) == entry[q[i]].sessionKey
Mapped == \A i \in 1..Len(q) : /\ KeyOf(i) \in Keys /\ m[KeyOf(i)] = q[i]
                               /\ entry[q[i]].state \in States
Listed == \A k \in Keys : m[k] # 0 => \E i \in 1..Len(q) : q[i] = m[k] /\ KeyOf(i) = k

CacheInv == CacheTypeOK /\ Distinct /\ Allocated /\ Mapped /\ Listed

-----------------------------------------------------------------------------
(* MoveToFront as a shift of the elements before position p.               *)

\* Moving the element at position p: the elements before it go back by one.
LEMMA MoveToFrontShifts ==
  ASSUME CacheInv, NEW p \in 1..Len(q)
  PROVE  /\ MoveToFront(q[p]) \in Seq(Elements) /\ Len(MoveToFront(q[p])) = Len(q)
         /\ \A j \in 1..Len(q) : MoveToFront(q[p])[j] =
               IF j = 1 THEN q[p] ELSE IF j <= p THEN q[j - 1] ELSE q[j]
<1> DEFINE f == [j \in 1..Len(q) |->
                  IF j = 1 THEN q[p] ELSE IF j <= p THEN q[j - 1] ELSE q[j]]
<1>1. q \in Seq(Elements) /\ Len(q) \in Nat /\ \A i \in 1..Len(q) : q[i] \in Elements
  BY DEF CacheInv, CacheTypeOK
<1>2. \A j \in 1..Len(q) : (\E i \in j..Len(q) : q[i] = q[p]) <=> j <= p
  BY <1>1 DEF CacheInv, Distinct
<1>3. MoveToFront(q[p]) = f
  BY <1>1, <1>2 DEF MoveToFront
<1>4. \A j \in 1..Len(q) : f[j] \in Elements
  BY <1>1
<1>5. f \in [1..Len(q) -> Elements]
  BY <1>4
<1>6. f \in Seq(Elements) /\ Len(f) = Len(q)
  BY <1>1, <1>5, IsASeq, LenProperties
<1> QED  BY <1>3, <1>6

\* What is at the front after the move, and where every element has gone.
LEMMA MoveToFrontKeeps ==
  ASSUME CacheInv, NEW p \in 1..Len(q), q' = MoveToFront(q[p])
  PROVE  /\ q' \in Seq(Elements) /\ Len(q') = Len(q) /\ Len(q) \in Nat /\ q'[1] = q[p]
         /\ \A j \in 1..Len(q) : q'[j] =
               q[IF j = 1 THEN p ELSE IF j <= p THEN j - 1 ELSE j]
         /\ \A j \in 1..Len(q) : \E i \in 1..Len(q) : q'[j] = q[i]
         /\ \A i \in 1..Len(q) : \E j \in 1..Len(q) : q'[j] = q[i]
         /\ Distinct' /\ Allocated'
<1>1. /\ q' \in Seq(Elements) /\ Len(q') = Len(q) /\ Len(q) \in Nat
      /\ \A j \in 1..Len(q) : q'[j] =
            IF j = 1 THEN q[p] ELSE IF j <= p THEN q[j - 1] ELSE q[j]
  <2>1. Len(q) \in Nat
    BY DEF CacheInv, CacheTypeOK
  <2> QED  BY <2>1, MoveToFrontShifts
<1> DEFINE from(j) == IF j = 1 THEN p ELSE IF j <= p THEN j - 1 ELSE j
           to(i)   == IF i = p THEN 1 ELSE IF i < p THEN i + 1 ELSE i
<1>2. \A j \in 1..Len(q) : from(j) \in 1..Len(q) /\ q'[j] = q[from(j)]
  BY <1>1
<1>3. \A i, j \in 1..Len(q) : from(i) = from(j) => i = j
  BY <1>1
<1>4. \A i \in 1..Len(q) : to(i) \in 1..Len(q) /\ from(to(i)) = i
  BY <1>1
<1>5. Distinct'
  BY <1>1, <1>2, <1>3 DEF CacheInv, Distinct
<1>6. Allocated'
  BY <1>1, <1>2 DEF CacheInv, Allocated
<1>7. \A i \in 1..Len(q) : \E j \in 1..Len(q) : q'[j] = q[i]
  BY <1>2, <1>4
<1>8. \A j \in 1..Len(q) : \E i \in 1..Len(q) : q'[j] = q[i]
  BY <1>2
<1>9. q'[1] = q[p]
  <2>1. 1 \in 1..Len(q)
    BY <1>1
  <2> QED  BY <1>1, <2>1
<1>10. \A j \in 1..Len(q) : q'[j] = q[IF j = 1 THEN p ELSE IF j <= p THEN j - 1 ELSE j]
  BY <1>2
<1> HIDE DEF from, to
<1> QED  BY <1>1, <1>5, <1>6, <1>7, <1>8, <1>9, <1>10

\* Putting a new element in front of the list.
LEMMA PushFrontKeeps ==
  ASSUME CacheInv, Len(q) < Capacity, q' = <<Fresh>> \o q
  PROVE  /\ q' \in Seq(Elements) /\ Len(q) \in Nat /\ Len(q') = Len(q) + 1
         /\ q'[1] = Len(q) + 1 /\ \A j \in 2..Len(q') : q'[j] = q[j - 1]
         /\ \A i \in 1..Len(q) : q'[i + 1] = q[i]
         /\ Distinct' /\ Allocated'
<1>1. q \in Seq(Elements) /\ Len(q) \in Nat /\ Fresh \in Elements /\ Fresh = Len(q) + 1
  BY CacheAssumption DEF CacheInv, CacheTypeOK, Fresh, Elements
<1>2. <<Fresh>> \in Seq(Elements) /\ Len(<<Fresh>>) = 1 /\ <<Fresh>>[1] = Fresh
  BY <1>1
<1>3. q' \in Seq(Elements) /\ Len(q') = 1 + Len(q)
  BY <1>1, <1>2, ConcatProperties
<1>4. \A j \in 1..Len(q') : q'[j] = IF j <= 1 THEN <<Fresh>>[j] ELSE q[j - 1]
  BY <1>1, <1>2, <1>3, ConcatProperties
<1>5. q'[1] = Len(q) + 1 /\ \A j \in 2..Len(q') : q'[j] = q[j - 1]
  BY <1>1, <1>2, <1>3, <1>4
<1>6. \A i \in 1..Len(q) : q'[i + 1] = q[i]
  BY <1>1, <1>3, <1>5
<1>7. Allocated'
  BY <1>1, <1>3, <1>5, CacheAssumption DEF CacheInv, Allocated
<1>8. Distinct'
  BY <1>1, <1>3, <1>5 DEF CacheInv, Allocated, Distinct
<1> QED  BY <1>1, <1>3, <1>5, <1>6, <1>7, <1>8

-----------------------------------------------------------------------------
(* Each operation preserves the invariant.                                 *)

\* A new state under a key that is present.
LEMMA ReplaceStep ==
  ASSUME NEW k \in Keys, NEW s \in States, CacheInv, Replace(k, s)
  PROVE  CacheInv'
<1>1. PICK p \in 1..Len(q) : q[p] = m[k] /\ KeyOf(p) = k
  BY DEF CacheInv, Listed, Replace
<1>2. q' = MoveToFront(q[p]) /\ entry' = [entry EXCEPT ![q[p]].state = s] /\ m' = m /\ got' = got
  BY <1>1 DEF Replace
<1>3. /\ q' \in Seq(Elements) /\ Len(q') = Len(q) /\ Len(q) \in Nat
      /\ \A j \in 1..Len(q) : \E i \in 1..Len(q) : q'[j] = q[i]
      /\ \A i \in 1..Len(q) : \E j \in 1..Len(q) : q'[j] = q[i]
      /\ Distinct' /\ Allocated'
  BY <1>2, MoveToFrontKeeps
<1>4. q[p] \in Elements
  BY DEF CacheInv, CacheTypeOK
<1>5. \A e \in Elements : /\ entry'[e].sessionKey = entry[e].sessionKey
                           /\ entry'[e].state = IF e = q[p] THEN s ELSE entry[e].state
  BY <1>2, <1>4 DEF CacheInv, CacheTypeOK
<1>6. entry' \in [Elements -> [sessionKey : Keys \cup {Nil}, state : States \cup {Nil}]]
  BY <1>2, <1>4 DEF CacheInv, CacheTypeOK
<1>7. CacheTypeOK'
  BY <1>2, <1>3, <1>6 DEF CacheInv, CacheTypeOK
<1>8. \A i \in 1..Len(q) : q[i] \in Elements
  BY DEF CacheInv, CacheTypeOK
<1>9. Mapped'
  <2> SUFFICES ASSUME NEW j \in 1..Len(q)
               PROVE  /\ entry'[q'[j]].sessionKey \in Keys
                      /\ m'[entry'[q'[j]].sessionKey] = q'[j]
                      /\ entry'[q'[j]].state \in States
    BY <1>3 DEF Mapped, KeyOf
  <2>1. PICK i \in 1..Len(q) : q'[j] = q[i]
    BY <1>3
  <2>2. /\ entry[q[i]].sessionKey \in Keys /\ m[entry[q[i]].sessionKey] = q[i]
        /\ entry[q[i]].state \in States
    BY DEF CacheInv, Mapped, KeyOf
  <2>3. /\ entry'[q[i]].sessionKey = entry[q[i]].sessionKey
        /\ entry'[q[i]].state \in {s, entry[q[i]].state}
    BY <1>5, <1>8
  <2> QED  BY <2>1, <2>2, <2>3, <1>2
<1>10. Listed'
  <2> SUFFICES ASSUME NEW l \in Keys, m'[l] # 0
               PROVE  \E j \in 1..Len(q) : q'[j] = m'[l] /\ entry'[q'[j]].sessionKey = l
    BY <1>3 DEF Listed, KeyOf
  <2>1. PICK i \in 1..Len(q) : q[i] = m[l] /\ entry[q[i]].sessionKey = l
    BY <1>2 DEF CacheInv, Listed, KeyOf
  <2>2. PICK j \in 1..Len(q) : q'[j] = q[i]
    BY <1>3
  <2>3. entry'[q[i]].sessionKey = l
    BY <2>1, <1>5, <1>8
  <2> QED  BY <2>1, <2>2, <2>3, <1>2
<1> QED  BY <1>3, <1>7, <1>9, <1>10 DEF CacheInv

\* A new key and room for it.
LEMMA InsertStep ==
  ASSUME NEW k \in Keys, NEW s \in States, CacheInv, Insert(k, s)
  PROVE  CacheInv'
<1>1. /\ m[k] = 0 /\ Len(q) < Capacity /\ q' = <<Fresh>> \o q /\ got' = got
      /\ entry' = [entry EXCEPT ![Fresh] = [sessionKey |-> k, state |-> s]]
      /\ m' = [m EXCEPT ![k] = Fresh]
  BY DEF Insert
<1>2. /\ q' \in Seq(Elements) /\ Len(q) \in Nat /\ Len(q') = Len(q) + 1
      /\ q'[1] = Len(q) + 1 /\ \A j \in 2..Len(q') : q'[j] = q[j - 1]
      /\ \A i \in 1..Len(q) : q'[i + 1] = q[i]
      /\ Distinct' /\ Allocated'
  BY <1>1, PushFrontKeeps
<1>3. Fresh = Len(q) + 1 /\ Fresh \in Elements /\ Fresh \in 1..Capacity /\ Fresh # 0
  BY <1>1, <1>2, CacheAssumption DEF Fresh, Elements
<1>4. \A i \in 1..Len(q) : q[i] \in Elements /\ q[i] # Fresh
  BY <1>2, <1>3 DEF CacheInv, CacheTypeOK, Allocated
<1>5. /\ entry'[Fresh].sessionKey = k /\ entry'[Fresh].state = s
      /\ \A e \in Elements \ {Fresh} : entry'[e] = entry[e]
  BY <1>1, <1>3 DEF CacheInv, CacheTypeOK
<1>6. m'[k] = Fresh /\ \A l \in Keys \ {k} : m'[l] = m[l]
  BY <1>1 DEF CacheInv, CacheTypeOK
<1>7. CacheTypeOK'
  BY <1>1, <1>3, CacheAssumption, <1>2 DEF CacheInv, CacheTypeOK
<1>8. Mapped'
  BY <1>2, <1>3, <1>5, <1>6, <1>4, <1>1 DEF Mapped, KeyOf, CacheInv, Allocated
<1>9. Listed'
  <2> SUFFICES ASSUME NEW l \in Keys, m'[l] # 0
               PROVE  \E j \in 1..Len(q') : q'[j] = m'[l] /\ entry'[q'[j]].sessionKey = l
    BY DEF Listed, KeyOf
  <2>1. CASE l = k
    BY <2>1, <1>2, <1>3, <1>5, <1>6
  <2>2. CASE l # k
    <3>1. PICK i \in 1..Len(q) : q[i] = m[l] /\ entry[q[i]].sessionKey = l
      BY <2>2, <1>6 DEF CacheInv, Listed, KeyOf
    <3>2. i + 1 \in 1..Len(q') /\ q'[i + 1] = q[i]
      BY <1>2
    <3> QED  BY <2>2, <3>1, <3>2, <1>4, <1>5, <1>6
  <2> QED  BY <2>1, <2>2
<1> QED  BY <1>2, <1>7, <1>8, <1>9 DEF CacheInv

\* A new key in a full cache: the last element is recycled for it.
LEMMA EvictStep ==
  ASSUME NEW k \in Keys, NEW s \in States, CacheInv, Evict(k, s)
  PROVE  CacheInv'
<1> DEFINE n == Len(q)
           b == q[Len(q)]
           old == entry[b].sessionKey
<1>1. /\ m[k] = 0 /\ Len(q) >= Capacity /\ q' = MoveToFront(b) /\ got' = got
      /\ entry' = [entry EXCEPT ![b] = [sessionKey |-> k, state |-> s]]
      /\ m' = [m EXCEPT ![old] = 0, ![k] = b]
  BY DEF Evict, Back
<1>2. n \in Nat /\ n \in 1..n /\ n = Capacity /\ n > 0
  BY <1>1, CacheAssumption DEF CacheInv, CacheTypeOK, Allocated
<1>3. /\ q' \in Seq(Elements) /\ Len(q') = n
      /\ \A j \in 1..n : \E i \in 1..n : q'[j] = q[i]
      /\ \A i \in 1..n : \E j \in 1..n : q'[j] = q[i]
      /\ Distinct' /\ Allocated'
  <2>1. q' = MoveToFront(q[n])
    BY <1>1
  <2> QED  BY <1>2, <2>1, MoveToFrontKeeps
<1>4. \A i \in 1..n : q[i] \in Elements /\ q[i] # 0
  BY <1>2 DEF CacheInv, CacheTypeOK, Elements
<1>5. old \in Keys /\ m[old] = b /\ old # k /\ b \in Elements /\ b # 0
  BY <1>1, <1>2, <1>4 DEF CacheInv, Mapped, KeyOf
<1>6. /\ entry'[b].sessionKey = k /\ entry'[b].state = s
      /\ \A e \in Elements \ {b} : entry'[e] = entry[e]
  BY <1>1, <1>5 DEF CacheInv, CacheTypeOK
<1>7. m'[k] = b /\ m'[old] = 0 /\ \A l \in Keys \ {k, old} : m'[l] = m[l]
  BY <1>1, <1>5 DEF CacheInv, CacheTypeOK
<1>8. CacheTypeOK'
  BY <1>1, <1>5, CacheAssumption, <1>3 DEF CacheInv, CacheTypeOK, Elements
<1>9. Mapped'
  <2> SUFFICES ASSUME NEW j \in 1..n
               PROVE  /\ entry'[q'[j]].sessionKey \in Keys
                      /\ m'[entry'[q'[j]].sessionKey] = q'[j]
                      /\ entry'[q'[j]].state \in States
    BY <1>3 DEF Mapped, KeyOf
  <2>1. PICK i \in 1..n : q'[j] = q[i]
    BY <1>3
  <2>2. CASE q[i] = b
    BY <2>1, <2>2, <1>6, <1>7
  <2>3. CASE q[i] # b
    <3>1. entry'[q'[j]] = entry[q[i]]
      BY <2>1, <2>3, <1>4, <1>6
    <3>2. /\ entry[q[i]].sessionKey \in Keys /\ m[entry[q[i]].sessionKey] = q[i]
          /\ entry[q[i]].state \in States
      BY DEF CacheInv, Mapped, KeyOf
    <3>3. entry[q[i]].sessionKey # k /\ entry[q[i]].sessionKey # old
      BY <3>2, <2>3, <1>1, <1>4, <1>5
    <3> QED  BY <2>1, <3>1, <3>2, <3>3, <1>7
  <2> QED  BY <2>2, <2>3
<1>10. Listed'
  <2> SUFFICES ASSUME NEW l \in Keys, m'[l] # 0
               PROVE  \E j \in 1..n : q'[j] = m'[l] /\ entry'[q'[j]].sessionKey = l
    BY <1>3 DEF Listed, KeyOf
  <2>1. CASE l = k
    <3>1. PICK j \in 1..n : q'[j] = b
      BY <1>2, <1>3
    <3> QED  BY <2>1, <3>1, <1>6, <1>7
  <2>2. CASE l # k
    <3>1. m'[l] = m[l] /\ l # old
      BY <2>2, <1>7
    <3>2. PICK i \in 1..n : q[i] = m[l] /\ entry[q[i]].sessionKey = l
      BY <3>1 DEF CacheInv, Listed, KeyOf
    <3>3. PICK j \in 1..n : q'[j] = q[i]
      BY <1>3
    <3>4. q[i] # b /\ q[i] \in Elements
      BY <3>1, <3>2, <1>4
    <3> QED  BY <3>1, <3>2, <3>3, <3>4, <1>6
  <2> QED  BY <2>1, <2>2
<1> QED  BY <1>3, <1>8, <1>9, <1>10 DEF CacheInv

\* A Get moves an element or leaves everything as it is.
LEMMA GetStep ==
  ASSUME NEW k \in Keys, CacheInv, Get(k)
  PROVE  CacheInv'
<1>1. /\ m' = m /\ entry' = entry
      /\ got' = [sessionKey |-> k, state |-> IF m[k] = 0 THEN Nil ELSE entry[m[k]].state]
  BY DEF Get
<1>2. got' \in [sessionKey : Keys \cup {Nil}, state : States \cup {Nil}]
  BY CacheAssumption, <1>1 DEF CacheInv, CacheTypeOK, Elements
<1>3. CASE m[k] = 0
  <2>1. q' = q
    BY <1>3 DEF Get
  <2> QED  BY <1>1, <1>2, <2>1 DEF CacheInv, CacheTypeOK, Distinct, Allocated, Mapped, Listed, KeyOf
<1>4. CASE m[k] # 0
  <2>1. PICK p \in 1..Len(q) : q[p] = m[k] /\ KeyOf(p) = k
    BY <1>4 DEF CacheInv, Listed
  <2>2. q' = MoveToFront(q[p])
    BY <1>4, <2>1 DEF Get
  <2>3. /\ q' \in Seq(Elements) /\ Len(q') = Len(q) /\ Len(q) \in Nat
        /\ \A j \in 1..Len(q) : \E i \in 1..Len(q) : q'[j] = q[i]
        /\ \A i \in 1..Len(q) : \E j \in 1..Len(q) : q'[j] = q[i]
        /\ Distinct' /\ Allocated'
    BY <2>2, MoveToFrontKeeps
  <2>4. CacheTypeOK'
    BY <1>1, <1>2, <2>3 DEF CacheInv, CacheTypeOK
  <2>5. Mapped'
    <3> SUFFICES ASSUME NEW j \in 1..Len(q)
                 PROVE  /\ entry[q'[j]].sessionKey \in Keys
                        /\ m[entry[q'[j]].sessionKey] = q'[j]
                        /\ entry[q'[j]].state \in States
      BY <1>1, <2>3 DEF Mapped, KeyOf
    <3>1. PICK i \in 1..Len(q) : q'[j] = q[i]
      BY <2>3
    <3> QED  BY <3>1 DEF CacheInv, Mapped, KeyOf
  <2>6. Listed'
    <3> SUFFICES ASSUME NEW l \in Keys, m[l] # 0
                 PROVE  \E j \in 1..Len(q) : q'[j] = m[l] /\ entry[q'[j]].sessionKey = l
      BY <1>1, <2>3 DEF Listed, KeyOf
    <3>1. PICK i \in 1..Len(q) : q[i] = m[l] /\ entry[q[i]].sessionKey = l
      BY DEF CacheInv, Listed, KeyOf
    <3>2. PICK j \in 1..Len(q) : q'[j] = q[i]
      BY <2>3
    <3> QED  BY <3>1, <3>2
  <2> QED  BY <2>3, <2>4, <2>5, <2>6 DEF CacheInv
<1> QED  BY <1>3, <1>4

-----------------------------------------------------------------------------
(* The invariant.                                                          *)

\* A new cache satisfies the invariant.
LEMMA CacheInitInv == CacheInit => CacheInv
BY CacheAssumption DEF CacheInit, CacheTypeOK, NoEntry, CacheInv, Distinct, Allocated, Mapped, Listed

\* Every step of the specification preserves it.
LEMMA CacheNextInv == CacheInv /\ [CacheNext]_cacheVars => CacheInv'
BY GetStep, ReplaceStep, InsertStep, EvictStep DEF cacheVars, CacheInv, CacheTypeOK, Distinct, Allocated,
   Mapped, Listed, KeyOf, Put, CacheNext

\* The invariant holds in every reachable state.
THEOREM CacheInvariance == CacheSpec => []CacheInv
BY CacheInitInv, CacheNextInv, PTL DEF CacheSpec

\* The map and the list agree in every reachable state: no key leads to an element
\* that has been recycled for another one.
THEOREM LinkedAlways == CacheSpec => []Linked
<1>1. CacheInv => Linked
  BY DEF CacheInv, Linked, Distinct, Mapped, Listed, KeyOf
<1> QED  BY <1>1, CacheInvariance, PTL

\* Every variable keeps to its type in every reachable state: no element beyond the
\* capacity is allocated, and none of the list's is zero.
THEOREM CacheTypeCorrect == CacheSpec => []CacheTypeOK
<1>1. CacheInv => CacheTypeOK
  BY DEF CacheInv
<1> QED  BY <1>1, CacheInvariance, PTL

-----------------------------------------------------------------------------
(* The refinement: each operation is the one of LRUMap.                    *)

\* The keys of the list, as a sequence.
LEMMA UsedKeysSeq ==
  ASSUME CacheInv
  PROVE  /\ UsedKeys \in Seq(Keys) /\ Len(UsedKeys) = Len(q) /\ Len(q) \in Nat
         /\ \A i \in 1..Len(q) : UsedKeys[i] = entry[q[i]].sessionKey
BY IsASeq, LenProperties DEF CacheInv, CacheTypeOK, UsedKeys, Mapped, KeyOf

\* A key is present in the abstract map when the map leads to an element.
LEMMA PresentKeys ==
  ASSUME CacheInv
  PROVE  \A k \in Keys : /\ (k \in LRU!Present) <=> (m[k] # 0)
                         /\ Contents[k] = IF m[k] = 0 THEN Nil ELSE entry[m[k]].state
BY CacheAssumption DEF CacheInv, Listed, Mapped, KeyOf, Contents, LRU!Present

\* Moving the element at position p, which has the key k afterwards, is what LRUMap
\* does with the keys.
LEMMA TouchMaps ==
  ASSUME CacheInv, NEW k \in Keys, NEW p \in 1..Len(q), q' = MoveToFront(q[p]),
         \A i \in 1..Len(q) : entry'[q[i]].sessionKey = IF i = p THEN k ELSE entry[q[i]].sessionKey
  PROVE  UsedKeys' = LRU!Front(k, p)
<1>1. /\ Len(q') = Len(q) /\ Len(q) \in Nat
      /\ \A j \in 1..Len(q) : q'[j] = q[IF j = 1 THEN p ELSE IF j <= p THEN j - 1 ELSE j]
  BY MoveToFrontKeeps
<1>2. Len(UsedKeys) = Len(q) /\ \A i \in 1..Len(q) : UsedKeys[i] = entry[q[i]].sessionKey
  BY UsedKeysSeq
<1>3. \A j \in 1..Len(q) :
         entry'[q'[j]].sessionKey =
           IF j = 1 THEN k ELSE IF j <= p THEN UsedKeys[j - 1] ELSE UsedKeys[j]
  <2> SUFFICES ASSUME NEW j \in 1..Len(q)
               PROVE  entry'[q'[j]].sessionKey =
                        IF j = 1 THEN k ELSE IF j <= p THEN UsedKeys[j - 1] ELSE UsedKeys[j]
    OBVIOUS
  <2>1. CASE j = 1
    BY <1>1, <2>1
  <2>2. CASE j # 1 /\ j <= p
    BY <1>1, <2>2, <1>2
  <2>3. CASE j # 1 /\ ~ (j <= p)
    BY <1>1, <2>3, <1>2
  <2> QED  BY <2>1, <2>2, <2>3
<1>4. UsedKeys' = [j \in 1..Len(q) |-> entry'[q'[j]].sessionKey]
  BY <1>1 DEF UsedKeys
<1> QED  BY <1>2, <1>3, <1>4 DEF LRU!Front

\* A new state under a key that is present is an abstract Put.
LEMMA ReplaceMaps ==
  ASSUME NEW k \in Keys, NEW s \in States, CacheInv, Replace(k, s)
  PROVE  LRU!Put(k, s)
<1>1. PICK p \in 1..Len(q) : q[p] = m[k] /\ entry[q[p]].sessionKey = k
  BY DEF CacheInv, Listed, KeyOf, Replace
<1>2. /\ q' = MoveToFront(q[p]) /\ entry' = [entry EXCEPT ![q[p]].state = s]
      /\ m' = m /\ got' = got /\ m[k] # 0
  BY <1>1 DEF Replace
<1>3. \A i \in 1..Len(q) : q[i] \in Elements
  BY DEF CacheInv, CacheTypeOK
<1>4. \A e \in Elements : /\ entry'[e].sessionKey = entry[e].sessionKey
                          /\ entry'[e].state = IF e = q[p] THEN s ELSE entry[e].state
  BY <1>2, <1>3 DEF CacheInv, CacheTypeOK
<1>5. UsedKeys' = LRU!Front(k, p)
  BY <1>1, <1>2, <1>3, <1>4, TouchMaps
<1>6. LRU!Touch(k)
  BY <1>1, UsedKeysSeq, <1>5 DEF LRU!Touch
<1>7. Contents' = [Contents EXCEPT ![k] = s]
  <2>1. \A l \in Keys : m[l] # 0 => m[l] \in Elements /\ entry[m[l]].sessionKey = l
    BY <1>3 DEF CacheInv, Listed, KeyOf
  <2>2. \A l \in Keys : (IF m'[l] = 0 THEN Nil ELSE entry'[m'[l]].state)
                        = IF l = k THEN s ELSE IF m[l] = 0 THEN Nil ELSE entry[m[l]].state
    BY <1>1, <1>2, <1>4, <2>1
  <2> QED  BY <2>2 DEF Contents
<1>8. k \in LRU!Present
  BY <1>2, PresentKeys
<1> QED  BY <1>2, <1>6, <1>7, <1>8 DEF LRU!Put

\* A new key in a cache with room is an abstract Put.
LEMMA InsertMaps ==
  ASSUME NEW k \in Keys, NEW s \in States, CacheInv, Insert(k, s)
  PROVE  LRU!Put(k, s)
<1>1. /\ m[k] = 0 /\ Len(q) < Capacity /\ q' = <<Fresh>> \o q /\ got' = got
      /\ entry' = [entry EXCEPT ![Fresh] = [sessionKey |-> k, state |-> s]]
      /\ m' = [m EXCEPT ![k] = Fresh]
  BY DEF Insert
<1>2. /\ Len(q) \in Nat /\ Len(q') = Len(q) + 1
      /\ q'[1] = Len(q) + 1 /\ \A j \in 2..Len(q') : q'[j] = q[j - 1]
  BY <1>1, PushFrontKeeps
<1>3. Fresh = Len(q) + 1 /\ Fresh \in Elements /\ Fresh # 0
  BY <1>1, <1>2, CacheAssumption DEF Fresh, Elements
<1>4. \A i \in 1..Len(q) : q[i] \in Elements /\ q[i] # Fresh
  BY <1>2, <1>3 DEF CacheInv, CacheTypeOK, Allocated
<1>5. /\ entry'[Fresh].sessionKey = k /\ entry'[Fresh].state = s
      /\ \A e \in Elements \ {Fresh} : entry'[e] = entry[e]
  BY <1>1, <1>3 DEF CacheInv, CacheTypeOK
<1>6. UsedKeys \in Seq(Keys) /\ Len(UsedKeys) = Len(q)
      /\ \A i \in 1..Len(q) : UsedKeys[i] = entry[q[i]].sessionKey
  BY UsedKeysSeq
<1>7. UsedKeys' = <<k>> \o UsedKeys
  <2>1. \A j \in 1..Len(q') : entry'[q'[j]].sessionKey = IF j = 1 THEN k ELSE UsedKeys[j - 1]
    <3> SUFFICES ASSUME NEW j \in 1..Len(q')
                 PROVE  entry'[q'[j]].sessionKey = IF j = 1 THEN k ELSE UsedKeys[j - 1]
      OBVIOUS
    <3>1. CASE j = 1
      BY <3>1, <1>2, <1>3, <1>5
    <3>2. CASE j # 1
      BY <3>2, <1>2, <1>4, <1>5, <1>6
    <3> QED  BY <3>1, <3>2
  <2>2. UsedKeys' = [j \in 1..Len(q') |-> IF j = 1 THEN k ELSE UsedKeys[j - 1]]
    BY <2>1 DEF UsedKeys
  <2>3. <<k>> \in Seq(Keys) /\ Len(<<k>>) = 1 /\ <<k>>[1] = k
    OBVIOUS
  <2> DEFINE c == <<k>> \o UsedKeys
  <2>4. /\ c \in Seq(Keys) /\ Len(c) = Len(q')
        /\ \A j \in 1..Len(q') : c[j] = IF j <= 1 THEN <<k>>[j] ELSE UsedKeys[j - 1]
    BY <1>2, <1>6, <2>3, ConcatProperties
  <2>5. c = [j \in 1..Len(q') |-> c[j]]
    BY <2>4
  <2>6. \A j \in 1..Len(q') : c[j] = IF j = 1 THEN k ELSE UsedKeys[j - 1]
    BY <1>2, <2>3, <2>4
  <2> HIDE DEF c
  <2>7. UsedKeys' = c
    BY <2>2, <2>5, <2>6
  <2> QED  BY <2>7 DEF c
<1>8. Contents' = [Contents EXCEPT ![k] = s]
  <2>1. \A l \in Keys : m[l] # 0 => m[l] \in Elements /\ m[l] # Fresh
    BY <1>4 DEF CacheInv, Listed
  <2>2. \A l \in Keys : m'[l] = IF l = k THEN Fresh ELSE m[l]
    BY <1>1 DEF CacheInv, CacheTypeOK
  <2>3. \A l \in Keys : (IF m'[l] = 0 THEN Nil ELSE entry'[m'[l]].state)
                        = IF l = k THEN s ELSE IF m[l] = 0 THEN Nil ELSE entry[m[l]].state
    BY <1>3, <1>5, <2>1, <2>2
  <2> QED  BY <2>3 DEF Contents
<1>9. k \notin LRU!Present
  BY <1>1, PresentKeys
<1> QED  BY <1>1, <1>6, <1>7, <1>8, <1>9 DEF LRU!Put

\* Recycling the last element is an abstract Put that drops the least recently used key.
LEMMA EvictMaps ==
  ASSUME NEW k \in Keys, NEW s \in States, CacheInv, Evict(k, s)
  PROVE  LRU!Put(k, s)
<1> DEFINE n == Len(q)
           b == q[Len(q)]
           old == entry[b].sessionKey
<1>1. /\ m[k] = 0 /\ Len(q) >= Capacity /\ q' = MoveToFront(b) /\ got' = got
      /\ entry' = [entry EXCEPT ![b] = [sessionKey |-> k, state |-> s]]
      /\ m' = [m EXCEPT ![old] = 0, ![k] = b]
  BY DEF Evict, Back
<1>2. n \in Nat /\ n \in 1..n /\ n = Capacity
  BY <1>1, CacheAssumption DEF CacheInv, CacheTypeOK, Allocated
<1>3. \A i \in 1..n : q[i] \in Elements /\ q[i] # 0
  BY <1>2 DEF CacheInv, CacheTypeOK, Elements
<1>4. old \in Keys /\ m[old] = b /\ old # k /\ b \in Elements /\ b # 0
  BY <1>1, <1>2, <1>3 DEF CacheInv, Mapped, KeyOf
<1>5. /\ entry'[b].sessionKey = k /\ entry'[b].state = s
      /\ \A e \in Elements \ {b} : entry'[e] = entry[e]
  BY <1>1, <1>4 DEF CacheInv, CacheTypeOK
<1>6. \A i \in 1..n : entry'[q[i]].sessionKey = IF i = n THEN k ELSE entry[q[i]].sessionKey
  BY <1>2, <1>3, <1>5 DEF CacheInv, Distinct
<1>7. UsedKeys' = LRU!Front(k, Capacity)
  BY <1>1, <1>2, <1>6, TouchMaps
<1>8. Len(UsedKeys) = Capacity /\ UsedKeys[Capacity] = old
  BY <1>2, UsedKeysSeq
<1>9. Contents' = [Contents EXCEPT ![UsedKeys[Capacity]] = Nil, ![k] = s]
  <2>1. \A l \in Keys : m[l] # 0 => m[l] \in Elements /\ entry[m[l]].sessionKey = l
    BY <1>3 DEF CacheInv, Listed, KeyOf
  <2>2. \A l \in Keys : m'[l] = IF l = k THEN b ELSE IF l = old THEN 0 ELSE m[l]
    BY <1>1, <1>4 DEF CacheInv, CacheTypeOK
  <2>3. \A l \in Keys : (IF m'[l] = 0 THEN Nil ELSE entry'[m'[l]].state)
                        = IF l = k THEN s ELSE IF l = old THEN Nil
                          ELSE IF m[l] = 0 THEN Nil ELSE entry[m[l]].state
    BY <1>4, <1>5, <2>1, <2>2
  <2> HIDE DEF old
  <2> QED  BY <1>4, <1>8, <2>3 DEF Contents
<1>10. k \notin LRU!Present
  BY <1>1, PresentKeys
<1> QED  BY <1>1, <1>7, <1>8, <1>9, <1>10 DEF LRU!Put

\* A Get is an abstract Get.
LEMMA GetMaps ==
  ASSUME NEW k \in Keys, CacheInv, Get(k)
  PROVE  LRU!Get(k)
<1>1. /\ m' = m /\ entry' = entry
      /\ got' = [sessionKey |-> k, state |-> IF m[k] = 0 THEN Nil ELSE entry[m[k]].state]
  BY DEF Get
<1>2. Contents' = Contents
  BY <1>1 DEF Contents
<1>3. (k \in LRU!Present <=> m[k] # 0) /\ got' = [sessionKey |-> k, state |-> Contents[k]]
  BY <1>1, PresentKeys
<1>4. CASE m[k] = 0
  <2>1. UsedKeys' = UsedKeys
    BY <1>1, <1>4 DEF Get, UsedKeys
  <2> QED  BY <1>2, <1>3, <1>4, <2>1 DEF LRU!Get
<1>5. CASE m[k] # 0
  BY <1>5, <1>1, TouchMaps, UsedKeysSeq, <1>2, <1>3 DEF CacheInv, Listed, KeyOf, Get, LRU!Touch, LRU!Get
<1> QED  BY <1>4, <1>5

\* The cache implements the map that forgets its least recently used key, whatever
\* its keys, states and capacity.
THEOREM CacheImplementsLRU == CacheSpec => ImplementsLRU
<1>1. CacheInit => LRU!Init
  BY DEF CacheInit, UsedKeys, Contents, LRU!Init, NoEntry
<1>2. CacheInv /\ [CacheNext]_cacheVars => [LRU!Next]_(LRU!vars)
  BY GetMaps, ReplaceMaps, InsertMaps, EvictMaps DEF cacheVars, LRU!vars, UsedKeys, Contents, LRU!Next, Put,
     CacheNext
<1> QED  BY <1>1, <1>2, CacheInvariance, PTL DEF CacheSpec, ImplementsLRU, LRU!Spec
=============================================================================
