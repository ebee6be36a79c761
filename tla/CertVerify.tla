----------------------------- MODULE CertVerify -----------------------------
(***************************************************************************)
(* Certificate.Verify (x509/verify.go) over pools of certificates          *)
(* (x509/cert_pool.go): the search for chains with its cache, the checks   *)
(* on each certificate a chain is extended with, name constraints, host    *)
(* names and extended key usages.                                          *)
(*                                                                         *)
(* A certificate is what its parser left of it.  subject, issuer, key and  *)
(* signer are values: the signature of c is one of key signer.  ids: it    *)
(* has key identifiers, that of its key and that of its signer.  basic is  *)
(* its basic constraints: "ca", "leaf", or none in a version 1 ("none1")   *)
(* or 3 ("none3") certificate.  A domain is the sequence of its labels, in *)
(* lower case; "" is an empty label, as after a trailing dot.              *)
(***************************************************************************)
EXTENDS Integers, Sequences, FiniteSets, SequencesExt, FiniteSetsExt

CONSTANTS RootCerts, OtherCerts,  \* what may be added to the two pools
          Leaves, Options,        \* what Verify is called on, and with
          BadLabels,              \* labels with characters no host name has
          MaxRoots, MaxOthers     \* Bound: the size of each pool
ASSUME PoolAssumption == MaxRoots \in Nat /\ MaxOthers \in Nat

VARIABLES pools,      \* opts.Roots and opts.Intermediates, each a CertPool
          outcome     \* the call of Verify and what it returned

certVars == <<pools, outcome>>

-----------------------------------------------------------------------------
(* Host names.                                                              *)

HasSANExtension(c) == c.names # <<>>
TrimDot(h) == IF h # <<>> /\ Last(h) = "" THEN Front(h) ELSE h
ValidHostname(host) ==
  LET h == TrimDot(host)
  IN h # <<>> /\ \A i \in DOMAIN h : h[i] \notin {""} \cup BadLabels /\ (h[i] = "*" => i = 1)
CommonNameAsHostname(c, opts) ==
  ~opts.ignoreCN /\ ~HasSANExtension(c) /\ ValidHostname(c.cn)

MatchHostnames(pattern, host) ==
  LET p == TrimDot(pattern)
      h == TrimDot(host)
  IN /\ p # <<>> /\ h # <<>> /\ Len(p) = Len(h)
     /\ \A i \in DOMAIN p : p[i] = h[i] \/ (i = 1 /\ p[i] = "*")

NamesOf(c, kind) == {n \in ToSet(c.names) : n.kind = kind}
VerifyHostname(c, h, opts) ==
  IF h.ip THEN \E n \in NamesOf(c, "ip") : n.labels = h.labels
  ELSE IF CommonNameAsHostname(c, opts) THEN MatchHostnames(c.cn, h.labels)
  ELSE \E n \in NamesOf(c, "dns") : MatchHostnames(n.labels, h.labels)

-----------------------------------------------------------------------------
(* Name constraints.  A name of a certificate has a kind, "dns", "email",   *)
(* "uri", "ip" or "other", and labels: a domain, the octets of an address,  *)
(* or <<>> for a URI without a domain.  A constraint has the same, local    *)
(* for one mailbox, and bits, the octets its mask covers.                   *)

Parses(labels) == "" \notin ToSet(labels)
YesIf(b) == IF b THEN "yes" ELSE "no"
MatchDomainConstraint(domain, constraint) ==
  LET mustHaveSubdomains == constraint[1] = ""
      cs == Reverse(IF mustHaveSubdomains THEN Tail(constraint) ELSE constraint)
  IN IF constraint = <<>> THEN "yes"
     ELSE IF ~Parses(domain) THEN "error"
     ELSE YesIf(/\ IsPrefix(cs, Reverse(domain))
                /\ mustHaveSubdomains => Len(domain) # Len(cs))

MatchConstraint(n, k) ==
  CASE n.kind = "ip" ->
         YesIf(Len(n.labels) = Len(k.labels) /\ \A i \in k.bits : n.labels[i] = k.labels[i])
    [] n.kind = "email" /\ k.local # "" -> YesIf(n.local = k.local /\ n.labels = k.labels)
    [] n.kind = "uri" /\ n.labels = <<>> -> "error"
    [] OTHER -> MatchDomainConstraint(n.labels, k.labels)

HasNameConstraints(c) == c.permitted \cup c.excluded # {}
Limit(opts) == IF opts.limit = 0 THEN 250000 ELSE opts.limit

\* How often constraints ks are compared with the first n of names.
Compared(ks, names, n) ==
  Cardinality({<<i, k>> \in (1..n) \X ks : names[i].kind = k.kind})

\* How the i-th name of leaf compares with constraints ks.
Results(ks, leaf, i) ==
  {MatchConstraint(leaf.names[i], k) : k \in {j \in ks : j.kind = leaf.names[i].kind}}

\* "" or the first error among errs.
FirstError(errs) ==
  LET es == SelectSeq(errs, LAMBDA e : e # "") IN IF es = <<>> THEN "" ELSE es[1]
ErrorIf(b, err) == IF b THEN err ELSE ""

\* checkNameConstraints of c on the i-th name of leaf, after the names before
\* it passed.  Constraints are a set: one that permits comes before an error.
CheckNameConstraints(c, leaf, i, opts) ==
  LET permits == Results(c.permitted, leaf, i)
      before == Compared(c.permitted, leaf.names, i - 1)
      excluding == Compared(c.excluded, leaf.names, i)
      permitting == Compared(c.permitted, leaf.names, i)
  IN FirstError(
       <<ErrorIf(before + excluding > Limit(opts), "TooManyConstraints"),
         ErrorIf(Results(c.excluded, leaf, i) \ {"no"} # {}, "CANotAuthorizedForThisName"),
         ErrorIf(permitting + excluding > Limit(opts), "TooManyConstraints"),
         ErrorIf(permits # {} /\ "yes" \notin permits, "CANotAuthorizedForThisName")>>)

\* isValid's pass over the names of leaf.
CheckNames(c, leaf, opts) ==
  FirstError([i \in DOMAIN leaf.names |->
    IF leaf.names[i].kind \in {"dns", "email"} /\ ~Parses(leaf.names[i].labels)
    THEN "cannot parse"
    ELSE CheckNameConstraints(c, leaf, i, opts)])

-----------------------------------------------------------------------------
(* One certificate.                                                         *)

\* Mutant: one intermediate more than the certificate allows.
PathLenOK_OffByOne(c, chain) ==
  c.basic \in {"ca", "leaf"} /\ c.pathLen >= 0 => Len(chain) - 2 <= c.pathLen

\* The certificates between the leaf and c in chain; pathLen is -1 if there
\* is no limit.
PathLenOK(c, chain) ==
  c.basic \in {"ca", "leaf"} /\ c.pathLen >= 0 => Len(chain) - 1 <= c.pathLen

\* isValid: c may extend the chain; "" or the error.
IsValid(c, type, chain, opts) ==
  LET constrains == type # "leaf" /\ HasNameConstraints(c)
  IN FirstError(
       <<ErrorIf(c.critical, "UnhandledCriticalExtension"),
         ErrorIf(chain # <<>> /\ Last(chain).issuer # c.subject, "NameMismatch"),
         ErrorIf(opts.now \notin c.from..c.to, "Expired"),
         ErrorIf(constrains /\ CommonNameAsHostname(chain[1], opts), "NameConstraintsWithoutSANs"),
         IF constrains THEN CheckNames(c, chain[1], opts) ELSE "",
         ErrorIf(type = "intermediate" /\ c.basic # "ca", "NotAuthorizedToSign"),
         ErrorIf(~PathLenOK(c, chain), "TooManyIntermediates")>>)

\* CheckSignatureFrom, and checkSignature as who signed.
CheckSignatureFrom(c, parent) ==
  parent.basic \in {"ca", "none1"} /\ parent.signs /\ parent.key = c.signer

-----------------------------------------------------------------------------
(* Pools and chains.                                                        *)

\* findVerifiedParents: positions in pool, found by key identifier, or else
\* by name.
FindVerifiedParents(c, pool) ==
  LET all == [i \in DOMAIN pool |-> i]
      byId == IF c.ids THEN SelectSeq(all, LAMBDA i : pool[i].ids /\ pool[i].key = c.signer)
              ELSE <<>>
      byName == SelectSeq(all, LAMBDA i : pool[i].subject = c.issuer)
  IN SelectSeq(IF byId # <<>> THEN byId ELSE byName, LAMBDA i : CheckSignatureFrom(c, pool[i]))

\* Candidates to extend the chain with; none is in it twice.
Parents(chain, pool) ==
  SelectSeq(FindVerifiedParents(Last(chain), pool), LAMBDA i : pool[i] \notin ToSet(chain))

\* buildChains' first loop: chain ends at a root.  err is what the variable
\* of that name holds.
AtRoots(chain, cache, opts) ==
  LET roots == Parents(chain, pools.roots)
      errs == [i \in DOMAIN roots |-> IsValid(pools.roots[roots[i]], "root", chain, opts)]
      valid == SelectSeq([i \in DOMAIN roots |-> i], LAMBDA i : errs[i] = "")
  IN [chains |-> [i \in DOMAIN valid |-> Append(chain, pools.roots[roots[valid[i]]])],
      err |-> IF roots = <<>> THEN "" ELSE Last(errs), cache |-> cache]

\* What buildChains returns: the cache is shared by all its calls.
Returned(found) ==
  [found EXCEPT !.err = IF found.chains # <<>> THEN "" ELSE IF @ = "" THEN "UnknownAuthority" ELSE @]

\* The two ways to go on from intermediate num, by the cache, which maps it to
\* the chains found the first time a chain got there, or by what was built.
FromCache(found, num) == [found EXCEPT !.err = "", !.chains = @ \o found.cache[num]]
FromChild(found, num, child) ==
  [chains |-> found.chains \o child.chains, err |-> child.err, cache |-> child.cache @@ num :> child.chains]

\* buildChains' second loop, over the intermediates at positions todo.
RECURSIVE ThroughIntermediates(_, _, _, _)
ThroughIntermediates(todo, chain, found, opts) ==
  IF todo = <<>> THEN Returned(found)
  ELSE LET c == pools.others[Head(todo)]
           longer == Append(chain, c)
           invalid == IsValid(c, "intermediate", chain, opts)
       IN ThroughIntermediates(Tail(todo), chain,
            IF invalid # "" THEN [found EXCEPT !.err = invalid]
            ELSE IF Head(todo) \in DOMAIN found.cache THEN FromCache(found, Head(todo))
            ELSE FromChild(found, Head(todo),
                   ThroughIntermediates(Parents(longer, pools.others), longer,
                                        AtRoots(longer, found.cache, opts), opts)), opts)

\* buildChains from the end of chain.
BuildChains(chain, cache, opts) ==
  ThroughIntermediates(Parents(chain, pools.others), chain, AtRoots(chain, cache, opts), opts)

\* checkChainForKeyUsage, from the root down.  No eku: good for anything.
Supports(c, usage) ==
  c.eku = {} \/ {usage, "any"} \cap c.eku # {} \/ (usage = "server" /\ "sgc" \in c.eku)
CheckChainForKeyUsage(chain, usages) ==
  FoldRight(LAMBDA c, left : {u \in left : Supports(c, u)}, chain, usages) # {}

Usages(opts) == IF opts.usages = {} THEN {"server"} ELSE opts.usages

-----------------------------------------------------------------------------

NotVerified == [done |-> FALSE]
CertInit == pools = [roots |-> <<>>, others |-> <<>>] /\ outcome = NotVerified

\* CertPool.AddCert.  Bound: the pools are filled before the call.
AddCert(pool, c) == IF Contains(pool, c) THEN pool ELSE Append(pool, c)
AddRoot ==
  /\ outcome = NotVerified /\ Len(pools.roots) < MaxRoots
  /\ \E c \in RootCerts : pools' = [pools EXCEPT !.roots = AddCert(@, c)]
  /\ UNCHANGED outcome
AddIntermediate ==
  /\ outcome = NotVerified /\ Len(pools.others) < MaxOthers
  /\ \E c \in OtherCerts : pools' = [pools EXCEPT !.others = AddCert(@, c)]
  /\ UNCHANGED outcome

\* Verify: the chains and the error it returns.
VerifyResult(c, opts) ==
  LET leafErr == IsValid(c, "leaf", <<>>, opts)
      built == IF Contains(pools.roots, c) THEN [chains |-> << <<c>> >>, err |-> ""]
               ELSE BuildChains(<<c>>, <<>>, opts)
      usable == IF "any" \in Usages(opts) THEN built.chains
                ELSE SelectSeq(built.chains, LAMBDA ch : CheckChainForKeyUsage(ch, Usages(opts)))
      fails(e) == [chains |-> <<>>, err |-> e]
  IN IF leafErr # "" THEN fails(leafErr)
     ELSE IF opts.host.labels # <<>> /\ ~VerifyHostname(c, opts.host, opts) THEN fails("Hostname")
     ELSE IF built.err # "" THEN fails(built.err)
     ELSE IF usable = <<>> THEN fails("IncompatibleUsage")
     ELSE [chains |-> usable, err |-> ""]

Verify ==
  /\ outcome = NotVerified
  /\ \E c \in Leaves, opts \in Options :
       LET r == VerifyResult(c, opts)
       IN outcome' = [done |-> TRUE, leaf |-> c, opts |-> opts, chains |-> r.chains, err |-> r.err]
  /\ UNCHANGED pools

-----------------------------------------------------------------------------
(* Properties.                                                              *)

IsCA(c) == c.basic = "ca"

\* The name n lies in the part of its name space that k describes.
Within(n, k) ==
  LET dotted == k.labels # <<>> /\ k.labels[1] = ""
      base == IF dotted THEN Tail(k.labels) ELSE k.labels
      depth == Len(n.labels) - Len(base)
  IN IF n.kind = "ip"
     THEN Len(n.labels) = Len(k.labels) /\ {i \in DOMAIN n.labels : n.labels[i] # k.labels[i]} \cap k.bits = {}
     ELSE IF n.kind = "email" /\ k.local # "" THEN n.local = k.local /\ n.labels = k.labels
     ELSE depth >= (IF dotted THEN 1 ELSE 0) /\ n.labels = SubSeq(n.labels, 1, depth) \o base

\* CA c lets a certificate below it claim n.
Grants(c, n) ==
  /\ n.kind \in {"dns", "email"} => "" \notin ToSet(n.labels)
  /\ n.kind = "uri" /\ n.labels = <<>> => \A k \in c.permitted \cup c.excluded : k.kind # "uri"
  /\ \A k \in c.excluded : k.kind = n.kind => ~Within(n, k)
  /\ {k \in c.permitted : k.kind = n.kind} # {} =>
       \E k \in c.permitted : k.kind = n.kind /\ Within(n, k)

\* A relying party may trust chain: from its certificate to one of its roots,
\* each issued and signed by the next, within what every CA above allows.
Trusted(chain, leaf, opts) ==
  LET n == Len(chain)
      ca(i) == chain[i]
  IN /\ chain[1] = leaf /\ chain[n] \in ToSet(pools.roots)
     /\ \A i \in 2..(n - 1) : ca(i) \in ToSet(pools.others) /\ IsCA(ca(i))
     /\ Cardinality(ToSet(chain)) = n
     /\ \A i \in 1..n : opts.now \in chain[i].from..chain[i].to /\ ~chain[i].critical
     /\ \A i \in 2..n :
          /\ ca(i).subject = chain[i - 1].issuer /\ ca(i).key = chain[i - 1].signer
          /\ ca(i).signs /\ ca(i).basic \in {"ca", "none1"}
          /\ IsCA(ca(i)) /\ ca(i).pathLen >= 0 => Cardinality({j \in 2..n : j < i}) <= ca(i).pathLen
          /\ HasNameConstraints(ca(i)) =>
               /\ \A m \in ToSet(leaf.names) : Grants(ca(i), m)
               /\ leaf.names = <<>> => ~CommonNameAsHostname(leaf, opts)
     /\ \E u \in Usages(opts) : u = "any" \/ \A i \in 1..n : Supports(chain[i], u)

\* The certificate is one for host h.
Covers(p, h) == Len(p) = Len(h) /\ p # <<>> /\ (p = h \/ (p[1] = "*" /\ Tail(p) = Tail(h)))
ClaimsHost(c, h, opts) ==
  \/ h.labels = <<>>
  \/ \E n \in ToSet(c.names) :
       \/ n.kind = "ip" /\ h.ip /\ n.labels = h.labels
       \/ n.kind = "dns" /\ ~h.ip /\ Covers(n.labels, TrimDot(h.labels))
  \/ c.names = <<>> /\ ~h.ip /\ CommonNameAsHostname(c, opts) /\ Covers(TrimDot(c.cn), TrimDot(h.labels))

\* Every sequence of certificates that a chain could be.
Routes(leaf) ==
  {<<leaf>>} \cup {(<<leaf>> \o s) \o <<r>> :
     s \in UNION {SetToSeqs(S) : S \in SUBSET ToSet(pools.others)}, r \in ToSet(pools.roots)}

\* What the search must not miss: nothing depends on the path by which a
\* certificate was reached, or on which of several ways it is looked up.
PathFree ==
  \A pool \in {pools.roots, pools.others} :
    /\ \A i \in DOMAIN pool : pool[i].eku = {} /\ ~(IsCA(pool[i]) /\ pool[i].pathLen >= 0)
    /\ \A i, j \in DOMAIN pool : pool[i].ids = pool[j].ids

\* ChainsBuilt: every chain that Verify returns may be trusted, though the
\* cache gives it to one path after it was built for another, and the host was
\* claimed by a name the CAs of the chain allow (buildChains, isValid,
\* VerifyHostname, commonNameAsHostname); an error comes without a chain, and
\* only if there is none, unless path lengths, usages, a mix of key
\* identifiers or the limit of comparisons hide it.
ChainsBuilt ==
  outcome.done =>
    LET leaf == outcome.leaf
        opts == outcome.opts
    IN /\ outcome.err = "" <=> outcome.chains # <<>>
       /\ outcome.err = "" => ClaimsHost(leaf, opts.host, opts)
       /\ \A i \in DOMAIN outcome.chains : Trusted(outcome.chains[i], leaf, opts)
       /\ outcome.err # "" /\ PathFree /\ opts.limit = 0 /\ ClaimsHost(leaf, opts.host, opts)
            => \A route \in Routes(leaf) : ~Trusted(route, leaf, opts)

=============================================================================
