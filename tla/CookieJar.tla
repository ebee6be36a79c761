------------------------------ MODULE CookieJar ------------------------------
(***************************************************************************)
(* The cookie jar (http/cookiejar/jar.go).                                 *)
(*                                                                         *)
(* A host is the sequence of its labels: <<"www", "foo", "com">>; the      *)
(* value of a Domain attribute too, with an empty label where it has a dot *)
(* too many, and <<>> for none.  A path is the sequence of its segments,   *)
(* one octet long, the last one empty where the path ends with a slash:    *)
(* <<"">> is "/", <<"a">> is "/a".  The entries are kept in the order of   *)
(* their Creation and seqNum.                                              *)
(***************************************************************************)
EXTENDS Integers, Sequences, FiniteSets, SequencesExt

CONSTANTS PublicSuffixes,  \* the public suffixes of more than one label
          IPs,             \* the hosts that are IP addresses
          Sites,           \* URLs: [scheme, host, path, user]
          SetCookieLines,  \* what servers set
          MaxSets, MaxTime \* bounds: cookies set, the clock
ASSUME JarAssumption == MaxSets \in Nat /\ MaxTime \in Nat

VARIABLES psList,          \* whether the jar has a PublicSuffixList
          entries,         \* the cookies in the jar
          now,             \* time.Now
          answer,          \* what Cookies returned, if that was the last event
          settings         \* history: what SetCookies was given, as entries

jarVars == <<psList, entries, now, answer, settings>>

-----------------------------------------------------------------------------
(* Hosts and paths.                                                         *)

HasDotSuffix(h, d) == Len(h) > Len(d) /\ IsSuffix(d, h)
LastLabels(h, n) == SubSeq(h, Len(h) - n + 1, Len(h))

\* A list that knows PublicSuffixes; where it knows nothing it answers the last
\* label.
PublicSuffix(h) ==
  LET known == {s \in PublicSuffixes : s = h \/ HasDotSuffix(h, s)}
  IN IF known = {} THEN LastLabels(h, 1)
     ELSE CHOOSE s \in known : \A t \in known : Len(t) <= Len(s)

\* Mutant: each host has cookies of its own.
JarKey_Host(h) == h
\* jarKey: one label more than the public suffix.
JarKey(h) ==
  LET suffix == IF psList THEN PublicSuffix(h) ELSE LastLabels(h, 1)
  IN IF h \in IPs \/ suffix = h THEN h ELSE LastLabels(h, Len(suffix) + 1)

DefaultPath(p) == IF Len(p) <= 1 THEN <<"">> ELSE Front(p)
PathLength(p) == 2 * Len(p) - (IF Last(p) = "" THEN 1 ELSE 0)

DomainMatch(e, h) == e.domain = h \/ (~e.hostOnly /\ HasDotSuffix(h, e.domain))
PathMatch(e, p) ==
  \/ p = e.path
  \/ Last(e.path) = "" /\ IsPrefix(Front(e.path), p) /\ Len(p) >= Len(e.path)
  \/ Last(e.path) # "" /\ IsPrefix(e.path, p)
ShouldSend(e, u) ==
  /\ DomainMatch(e, u.host)
  /\ PathMatch(e, IF u.path = <<>> THEN <<"">> ELSE u.path)
  /\ u.scheme = "https" \/ ~e.secure

-----------------------------------------------------------------------------
(* Setting.                                                                 *)

Illegal == [ok |-> FALSE]
Scope(domain, hostOnly) == [ok |-> TRUE, domain |-> domain, hostOnly |-> hostOnly]

DomainAndType(h, attribute) ==
  LET d == IF Head(attribute) = "" THEN Tail(attribute) ELSE attribute
  IN IF attribute = <<>> THEN Scope(h, TRUE)
     ELSE IF h \in IPs \/ Head(d) = "" \/ Last(d) = "" THEN Illegal
     ELSE IF psList /\ PublicSuffix(d) = d
     THEN IF h = d THEN Scope(h, TRUE) ELSE Illegal
     ELSE IF h # d /\ ~HasDotSuffix(h, d) THEN Illegal
     ELSE Scope(d, FALSE)

\* The time of a cookie without an end.
EndOfTime == 1000

\* newEntry for cookie c of a response from u; c.expires is 0 if it has none.
NewEntry(c, u) ==
  LET scope == DomainAndType(u.host, c.domain)
      expires == IF c.maxAge > 0 THEN now + c.maxAge
                 ELSE IF c.expires = 0 THEN EndOfTime ELSE c.expires
  IN [ok |-> scope.ok,
      remove |-> c.maxAge < 0 \/ (c.maxAge = 0 /\ expires <= now),
      e |-> IF ~scope.ok THEN c
            ELSE [key |-> JarKey(u.host), domain |-> scope.domain, hostOnly |-> scope.hostOnly,
                  path |-> IF c.path = <<>> THEN DefaultPath(u.path) ELSE c.path,
                  name |-> c.name, value |-> c.value, secure |-> c.secure, expires |-> expires]]

Id(e) == <<e.domain, e.path, e.name>>

\* What becomes of the entries es when n is set: a cookie that is there
\* already keeps its place in the order.
SetEntry(es, n) ==
  LET at == SelectInSeq(es, LAMBDA e : n.ok /\ e.key = n.e.key /\ Id(e) = Id(n.e))
  IN IF ~n.ok THEN es
     ELSE IF n.remove THEN IF at = 0 THEN es ELSE RemoveAt(es, at)
     ELSE IF at = 0 THEN Append(es, n.e)
     ELSE [es EXCEPT ![at] = n.e]

SetCookies(u, cookies) ==
  LET new == [i \in DOMAIN cookies |-> NewEntry(cookies[i], u)]
      heard == u.scheme \in {"http", "https"}
  IN /\ entries' = IF heard THEN FoldLeft(SetEntry, entries, new) ELSE entries
     /\ settings' = IF heard THEN settings \o new ELSE settings

-----------------------------------------------------------------------------
(* Asking.                                                                  *)

Expired(e) == e.expires <= now

\* The entries that cookies leaves when it is asked for u: it looks at those
\* of u's key and drops the expired ones.
Swept(u) == SelectSeq(entries, LAMBDA e : ~(e.key = JarKey(u.host) /\ Expired(e)))

\* The cookies for u: the longest paths first, then the oldest.
Longest == 6
CookiesFor(u) ==
  LET selected == SelectSeq(Swept(u), LAMBDA e : e.key = JarKey(u.host) /\ ShouldSend(e, u))
      OfLength(l) == SelectSeq(selected, LAMBDA e : PathLength(e.path) = l)
  IN IF u.scheme \in {"http", "https"}
     THEN FlattenSeq([i \in 1..Longest |-> OfLength(Longest + 1 - i)])
     ELSE <<>>

Cookies(u) ==
  /\ entries' = IF u.scheme \in {"http", "https"} THEN Swept(u) ELSE entries
  /\ answer' = [u |-> u, now |-> now, cookies |-> CookiesFor(u), upTo |-> Len(settings)]

-----------------------------------------------------------------------------
(* The jar in the hands of several callers; its mutex makes each call a     *)
(* step.                                                                    *)

NoAnswer == [upTo |-> -1]
JarInit ==
  /\ psList \in BOOLEAN /\ entries = <<>> /\ now = 1
  /\ answer = NoAnswer /\ settings = <<>>

Receive ==
  /\ Len(settings) < MaxSets
  /\ \E u \in Sites, c \in SetCookieLines : SetCookies(u, <<c>>)
  /\ answer' = NoAnswer /\ UNCHANGED <<psList, now>>
AskJar == (\E u \in Sites : Cookies(u)) /\ UNCHANGED <<psList, now, settings>>
Tick == /\ now < MaxTime /\ now' = now + 1
        /\ answer' = NoAnswer /\ UNCHANGED <<psList, entries, settings>>

-----------------------------------------------------------------------------
(* What the jar promises, in terms of all that was ever set.                *)

\* Without a list of suffixes a cookie for a whole top-level domain is taken
\* and kept, under the key of the host that set it, where no other host finds
\* it.
TopLevel(e) == Len(e.domain) = 1 /\ ~e.hostOnly

\* Setting i counted when Cookies was asked: it was not replaced, removed or
\* outlived.
Stands(i) ==
  LET s == settings[i]
  IN /\ s.ok /\ ~s.remove /\ s.e.expires > answer.now
     /\ \A j \in (i + 1)..answer.upTo : settings[j].ok => Id(settings[j].e) # Id(s.e)

\* JarAgrees: Cookies answers with exactly the cookies whose last setting is
\* still standing and whose domain, path and security fit the URL, the longest
\* path first, whatever hosts of the domain set them, in whatever order they
\* were set, replaced, removed and ran out, and although the jar files them
\* under one key and drops the old ones only when it comes across them
\* (jar.go, setCookies and cookies).
JarAgrees ==
  answer # NoAnswer =>
    LET u == answer.u
        due == {settings[i].e : i \in {k \in 1..answer.upTo : Stands(k) /\ ShouldSend(settings[k].e, u)}}
        given == answer.cookies
    IN /\ {e \in ToSet(given) : ~TopLevel(e)} =
             IF u.scheme \in {"http", "https"} THEN {e \in due : ~TopLevel(e)} ELSE {}
       /\ IsInjective(given)
       /\ \A i, j \in DOMAIN given : i < j => PathLength(given[i].path) >= PathLength(given[j].path)

=============================================================================
