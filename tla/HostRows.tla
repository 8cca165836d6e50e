------------------------------- MODULE HostRows -------------------------------
(***************************************************************************)
(* The rows of the hosts (internal/service/host.go and the host operations *)
(* of internal/plugin/coreapi.go): which host a domain belongs to, whether *)
(* a host keeps the upstreams of one request, whether its route names one  *)
(* of them, while requests claim domains from each other.                  *)
(*                                                                         *)
(* A statement of the database is atomic, and so is a transaction (SQLite  *)
(* refuses to let a transaction write over what changed since it read);    *)
(* Create and ImportAll are transactions.  Update, its claim included, and *)
(* Toggle are sequences of statements; reads that follow one another, or   *)
(* deletions of the rows of one host, are one step.  Foreign keys are      *)
(* enforced on the one connection that ran the PRAGMA, so a deletion may   *)
(* or may not take the host's rows in the other tables with it.            *)
(***************************************************************************)
EXTENDS Naturals, FiniteSets

CONSTANTS
    Client,    \* goroutines serving a request
    Host,      \* ids of hosts; an id is given out once
    Domain,
    Original,  \* upstreams of a host nobody has changed yet
    Nobody,    \* no host, no upstream
    Unborn,    \* the domain of an id not used yet
    Gone,      \* the domain of an id whose host is deleted
    MaxRequests\* bound: how many requests are made

ASSUME HostRowsAssumption ==
    /\ Nobody \notin Host \cup Client \cup Domain \cup {Original, Gone}
    /\ {Unborn, Gone} \cap Domain = {} /\ Unborn # Gone
    /\ Original \notin Client
    /\ MaxRequests \in Nat

VARIABLES
    domain,   \* hosts.domain of an id, Unborn or Gone
    extra,    \* host_domains: the id a domain is an additional domain of
    ups,      \* upstreams: whose request wrote the rows of an id
    route,    \* routes: whose upstreams the route of an id names
    op,       \* op[g]: the request of g, with what it has read
    asked,    \* how many requests have begun
    apart,    \* history: hosts changed while a request on them was midway, or
              \*          left halfway by a failed one
    raced,    \* history: a change fell between the steps of another one
    unchecked,\* history: a domain was given away without the full check
    orphaned, \* history: a host was deleted and its domains' rows were not
    shortened \* history: hosts an update left fewer upstreams than the index
              \*          of the one their route named

tables == <<domain, extra, ups, route>>
vars == <<tables, op, asked, apart, raced, unchecked, orphaned, shortened>>

Writer == Client \cup {Original}
Op == [pc : {"idle", "claiming", "claimed", "wiped", "saved", "named", "toggle"},
       host : Host \cup {Nobody}, primary : Domain \cup {Nobody},
       extras : SUBSET Domain, ups : SUBSET Writer,
       owners : SUBSET Host, heir : [Host -> Domain \cup {Gone, Nobody}]]
NoHeir == [h \in Host |-> Nobody]
NoOp == [pc |-> "idle", host |-> Nobody, primary |-> Nobody, extras |-> {}, ups |-> {},
         owners |-> {}, heir |-> NoHeir]
Want(g) == {op[g].primary} \cup op[g].extras

Live(h) == domain[h] \in Domain
Extras(h) == {d \in Domain : extra[d] = h}
Serves(h, d) == Live(h) /\ (domain[h] = d \/ extra[d] = h)
Quiet == \A g \in Client : op[g].pc = "idle"

Init ==
    \E h \in Host, d \in Domain :
        /\ domain = [k \in Host |-> IF k = h THEN d ELSE Unborn]
        /\ extra \in [Domain -> {Nobody, h}]
        /\ extra[d] = Nobody
        /\ ups = [k \in Host |-> IF k = h THEN {Original} ELSE {}]
        /\ route = [k \in Host |-> IF k = h THEN Original ELSE Nobody]
        /\ op = [g \in Client |-> NoOp]
        /\ asked = 0 /\ apart = {} /\ raced = FALSE /\ unchecked = FALSE /\ orphaned = FALSE
        /\ shortened = {}

-----------------------------------------------------------------------------
Others(g) == {k \in Client \ {g} : op[k].pc # "idle"}
Sharing(g, h) == \E k \in Others(g) : op[k].host = h

(* History: g changes host h, or begins to. *)
Note(g, h) ==
    /\ raced' = (raced \/ Others(g) # {})
    /\ apart' = IF Sharing(g, h) THEN apart \cup {h} ELSE apart

(* A request begins. *)
Ask(g) == op[g].pc = "idle" /\ asked < MaxRequests /\ asked' = asked + 1

Done(g) == op' = [op EXCEPT ![g] = NoOp]

(* The request ends in an error after part of its statements. *)
GiveUp(g) ==
    /\ Done(g)
    /\ apart' = apart \cup {op[g].host}
    /\ UNCHANGED <<asked, tables, raced, unchecked, orphaned, shortened>>

-----------------------------------------------------------------------------
(* claimRequestedDomains: the hosts other than self that have one of the   *)
(* wanted domains lose it; one that loses its primary promotes a remaining *)
(* additional domain, or is deleted if it has none.                        *)

(* A bug: only the primary domains are claimed. *)
LosersOfPrimary(self, want) == {h \in Host \ {self} : domain[h] \in want}

Losers(self, want) == {h \in Host \ {self} : \E d \in want : Serves(h, d)}
Remaining(h, want) == Extras(h) \ want
Doomed(self, want) ==
    {h \in Losers(self, want) : domain[h] \in want /\ Remaining(h, want) = {}}
Heirs(self, want) ==
    {h \in Losers(self, want) : domain[h] \in want /\ Remaining(h, want) # {}}

(* The domains of the table after the claim; next[h] is the heir's new one. *)
ClaimedDomain(self, want, next) ==
    LET doomed == Doomed(self, want)
        heirs == Heirs(self, want) IN
    [h \in Host |-> IF h \in doomed THEN Gone
                    ELSE IF h \in heirs THEN next[h] ELSE domain[h]]

ClaimedExtra(self, want, next, cascade) ==
    LET losers == Losers(self, want)
        doomed == Doomed(self, want)
        heirs == Heirs(self, want) IN
    [d \in Domain |->
        IF \/ d \in want /\ extra[d] \in losers \ doomed
           \/ extra[d] \in heirs /\ next[extra[d]] = d
           \/ cascade /\ extra[d] \in doomed
        THEN Nobody ELSE extra[d]]

Promotions(self, want) ==
    LET heirs == Heirs(self, want) IN
    {next \in [heirs -> Domain] : \A h \in heirs : next[h] \in Remaining(h, want)}

(* checkDomainConflicts, both tables: a row of a deleted host counts. *)
NoConflict(self, want, dom, ext) ==
    /\ \A h \in Host \ {self} : dom[h] \notin want
    /\ \A d \in want : ext[d] \in {self, Nobody}

-----------------------------------------------------------------------------
(* A host's row is deleted; its rows in the other tables go too where      *)
(* foreign keys are enforced.                                              *)
RemoveHost(h, cascade) ==
    /\ domain' = [domain EXCEPT ![h] = IF Live(h) THEN Gone ELSE @]
    /\ IF Live(h) /\ cascade
       THEN /\ extra' = [d \in Domain |-> IF extra[d] = h THEN Nobody ELSE extra[d]]
            /\ ups' = [ups EXCEPT ![h] = {}]
            /\ route' = [route EXCEPT ![h] = Nobody]
            /\ UNCHANGED orphaned
       ELSE /\ orphaned' = (orphaned \/ (Live(h) /\ Extras(h) # {}))
            /\ UNCHANGED <<extra, ups, route>>

(* Create, in one transaction: claim, check and insert, or nothing. *)
Create(g, h, p, xs, cascade) ==
    /\ Ask(g) /\ domain[h] = Unborn
    /\ LET want == {p} \cup xs IN
       \E next \in Promotions(h, want) :
          LET dom == ClaimedDomain(h, want, next)
              ext == ClaimedExtra(h, want, next, cascade) IN
          /\ NoConflict(h, want, dom, ext)
          /\ domain' = [dom EXCEPT ![h] = p]
          /\ extra' = [d \in Domain |-> IF d \in xs THEN h ELSE ext[d]]
          /\ orphaned' = (orphaned \/ \E d \in Domain : ext[d] \in Doomed(h, want))
          /\ apart' = apart \cup {k \in Losers(h, want) :
                                    \E c \in Client \ {g} : op[c].host = k}
    /\ ups' = [ups EXCEPT ![h] = {g}]
    /\ raced' = (raced \/ Others(g) # {})
    /\ UNCHANGED <<route, op, unchecked, shortened>>

(* A bug: an update neither claims nor checks, the unique indexes must do. *)
UpdateUnclaimed(g, h, p, xs) ==
    /\ Ask(g) /\ Live(h)
    /\ op' = [op EXCEPT ![g] = [pc |-> "claimed", host |-> h, primary |-> p, extras |-> xs,
                               ups |-> {}, owners |-> {}, heir |-> NoHeir]]
    /\ Note(g, h)
    /\ UNCHANGED <<tables, unchecked, orphaned, shortened>>

(* Update: the claim outside a transaction.  The owners of the domains are *)
(* read, with what is to become of each: an heir, Gone, or (Nobody) a host *)
(* that keeps its primary domain ...                                       *)
UpdateRead(g, h, p, xs) ==
    /\ Ask(g) /\ Live(h)
    /\ LET want == {p} \cup xs
           doomed == Doomed(h, want)
           heirs == Heirs(h, want) IN
       \E next \in Promotions(h, want) :
          op' = [op EXCEPT ![g] =
                   [pc |-> "claiming", host |-> h, primary |-> p, extras |-> xs, ups |-> {},
                    owners |-> Losers(h, want),
                    heir |-> [k \in Host |-> IF k \in doomed THEN Gone
                                             ELSE IF k \in heirs THEN next[k] ELSE Nobody]]]
    /\ Note(g, h)
    /\ UNCHANGED <<tables, unchecked, orphaned, shortened>>

(* ... and then each is deleted, ...                                       *)
UpdateDropHost(g, k, cascade) ==
    /\ op[g].pc = "claiming" /\ k \in op[g].owners /\ op[g].heir[k] = Gone
    /\ RemoveHost(k, cascade)
    /\ op' = [op EXCEPT ![g] = [@ EXCEPT !.owners = op[g].owners \ {k}]]
    /\ Note(g, k)
    /\ UNCHANGED <<asked, unchecked, shortened>>

(* ... or its new primary domain leaves the one table for the other, ...   *)
UpdatePromote(g, k) ==
    /\ op[g].pc = "claiming" /\ k \in op[g].owners /\ op[g].heir[k] \in Domain
    /\ LET d == op[g].heir[k] IN
       /\ \A i \in Host \ {k} : domain[i] # d
       /\ domain' = [domain EXCEPT ![k] = IF Live(k) THEN d ELSE @]
       /\ extra' = [extra EXCEPT ![d] = IF @ = k THEN Nobody ELSE @]
    /\ op' = [op EXCEPT ![g] = [@ EXCEPT !.heir = [op[g].heir EXCEPT ![k] = Nobody]]]
    /\ Note(g, k)
    /\ UNCHANGED <<asked, ups, route, unchecked, orphaned, shortened>>

(* ... or leaves the one and an error stops the request, ...               *)
UpdatePromoteFails(g, k) ==
    /\ op[g].pc = "claiming" /\ k \in op[g].owners /\ op[g].heir[k] \in Domain
    /\ extra' = [extra EXCEPT ![op[g].heir[k]] = IF @ = k THEN Nobody ELSE @]
    /\ Done(g)
    /\ Note(g, k)
    /\ UNCHANGED <<asked, domain, ups, route, unchecked, orphaned, shortened>>

(* ... and the wanted ones among its additional domains go.                *)
UpdateDropExtras(g, k) ==
    /\ op[g].pc = "claiming" /\ k \in op[g].owners /\ op[g].heir[k] = Nobody
    /\ extra' = [d \in Domain |-> IF d \in Want(g) /\ extra[d] = k THEN Nobody ELSE extra[d]]
    /\ op' = [op EXCEPT ![g] = [@ EXCEPT !.owners = op[g].owners \ {k}]]
    /\ Note(g, k)
    /\ UNCHANGED <<asked, domain, ups, route, unchecked, orphaned, shortened>>

(* The check that follows the claim; with a conflict: UpdateRefused.       *)
UpdateCheck(g) ==
    /\ op[g].pc = "claiming" /\ op[g].owners = {}
    /\ NoConflict(op[g].host, Want(g), domain, extra)
    /\ op' = [op EXCEPT ![g] = [@ EXCEPT !.pc = "claimed", !.heir = NoHeir]]
    /\ UNCHANGED <<asked, tables, apart, raced, unchecked, orphaned, shortened>>

(* The old upstreams are read, the rows of the host deleted; the errors of *)
(* the read and of each deletion are ignored.                              *)
UpdateWipe(g, failed) ==
    /\ op[g].pc = "claimed"
    /\ LET h == op[g].host IN
       /\ extra' = [d \in Domain |-> IF extra[d] = h /\ "domains" \notin failed
                                    THEN Nobody ELSE extra[d]]
       /\ ups' = [ups EXCEPT ![h] = IF "upstreams" \in failed THEN @ ELSE {}]
       /\ op' = [op EXCEPT ![g] = [@ EXCEPT !.pc = "wiped",
                                           !.ups = IF "read" \in failed THEN {} ELSE ups[h]]]
       /\ raced' = (raced \/ Others(g) # {})
       /\ apart' = IF failed # {} \/ Sharing(g, h) THEN apart \cup {h} ELSE apart
    /\ UNCHANGED <<asked, domain, route, unchecked, orphaned, shortened>>

(* A domain is still another's, a user name or a password is refused only  *)
(* now, or a statement whose error counts fails.                           *)
UpdateRefused(g) ==
    op[g].pc \in {"claiming", "claimed", "wiped", "saved", "named"} /\ GiveUp(g)

(* The host's row: unique among the hosts, inserted if it was deleted. *)
UpdateSave(g) ==
    /\ op[g].pc = "wiped"
    /\ \A k \in Host \ {op[g].host} : domain[k] # op[g].primary
    /\ domain' = [domain EXCEPT ![op[g].host] = op[g].primary]
    /\ op' = [op EXCEPT ![g] = [@ EXCEPT !.pc = "saved"]]
    /\ Note(g, op[g].host)
    /\ UNCHANGED <<asked, extra, ups, route, unchecked, orphaned, shortened>>

(* The additional domains: unique in their table. *)
UpdateDomains(g) ==
    /\ op[g].pc = "saved"
    /\ \A d \in op[g].extras : extra[d] = Nobody
    /\ extra' = [d \in Domain |-> IF d \in op[g].extras THEN op[g].host ELSE extra[d]]
    /\ op' = [op EXCEPT ![g] = [@ EXCEPT !.pc = "named"]]
    /\ Note(g, op[g].host)
    /\ UNCHANGED <<asked, domain, ups, route, unchecked, orphaned, shortened>>

(* A bug: the routes keep the ids of the deleted upstreams. *)
UpdateUpstreamsOnly(g) ==
    /\ op[g].pc = "named"
    /\ ups' = [ups EXCEPT ![op[g].host] = @ \cup {g}]
    /\ Note(g, op[g].host)
    /\ Done(g)
    /\ UNCHANGED <<asked, domain, extra, route, unchecked, orphaned, shortened>>

(* The upstreams; a route that named the n-th of the old ones names the    *)
(* n-th of the new ones, if there are so many.  The other associations and *)
(* ApplyConfig follow.                                                     *)
UpdateUpstreams(g) ==
    /\ op[g].pc = "named"
    /\ LET h == op[g].host IN
       /\ ups' = [ups EXCEPT ![h] = @ \cup {g}]
       /\ \/ /\ route' = [route EXCEPT ![h] = IF @ \in op[g].ups THEN g ELSE @]
             /\ UNCHANGED shortened
          \/ /\ route[h] \in op[g].ups
             /\ shortened' = shortened \cup {h}
             /\ UNCHANGED route
       /\ Note(g, h)
    /\ Done(g)
    /\ UNCHANGED <<asked, domain, extra, unchecked, orphaned>>

-----------------------------------------------------------------------------
(* Toggle and UpdateCertPaths read a host with its rows ...                *)
ToggleRead(g, h) ==
    /\ Ask(g) /\ Live(h)
    /\ op' = [op EXCEPT ![g] = [pc |-> "toggle", host |-> h, primary |-> domain[h],
                                extras |-> Extras(h), ups |-> ups[h],
                                owners |-> {}, heir |-> NoHeir]]
    /\ UNCHANGED <<tables, apart, raced, unchecked, orphaned, shortened>>

(* ... and Save writes it all back, inserting the rows that have gone      *)
(* since, the host's own too; two rows of one domain fail the statement.   *)
ToggleSave(g) ==
    /\ op[g].pc = "toggle"
    /\ LET h == op[g].host IN
       /\ \A k \in Host \ {h} : domain[k] # op[g].primary
       /\ \A d \in op[g].extras : extra[d] \in {h, Nobody}
       /\ domain' = [domain EXCEPT ![h] = op[g].primary]
       /\ extra' = [d \in Domain |-> IF d \in op[g].extras THEN h ELSE extra[d]]
       /\ ups' = [ups EXCEPT ![h] = @ \cup op[g].ups]
       /\ Note(g, h)
    /\ Done(g)
    /\ UNCHANGED <<asked, route, unchecked, orphaned, shortened>>

ToggleFails(g) ==
    /\ op[g].pc = "toggle"
    /\ Done(g)
    /\ UNCHANGED <<asked, tables, apart, raced, unchecked, orphaned, shortened>>

-----------------------------------------------------------------------------
Delete(g, h, cascade) ==
    /\ Ask(g) /\ Live(h)
    /\ RemoveHost(h, cascade)
    /\ Note(g, h)
    /\ UNCHANGED <<op, unchecked, shortened>>

(* CloneHost looks for the new domain among the primary domains only. *)
CloneHost(g, h, src, d) ==
    /\ Ask(g) /\ Live(src) /\ domain[h] = Unborn
    /\ \A k \in Host : domain[k] # d
    /\ domain' = [domain EXCEPT ![h] = d]
    /\ ups' = [ups EXCEPT ![h] = IF ups[src] = {} THEN {} ELSE {g}]
    /\ route' = [route EXCEPT ![h] = IF route[src] \in ups[src] THEN g ELSE Nobody]
    /\ unchecked' = (unchecked \/ extra[d] # Nobody)
    /\ apart' = IF src \in apart \/ Sharing(g, src)
                THEN apart \cup {h} ELSE apart
    /\ raced' = (raced \/ Others(g) # {})
    /\ UNCHANGED <<extra, op, orphaned, shortened>>

(* The core API renames a host after the same incomplete check. *)
CoreRename(g, h, d) ==
    /\ Ask(g) /\ Live(h)
    /\ \A k \in Host \ {h} : domain[k] # d
    /\ domain' = [domain EXCEPT ![h] = d]
    /\ unchecked' = (unchecked \/ extra[d] # Nobody)
    /\ Note(g, h)
    /\ UNCHANGED <<extra, ups, route, op, orphaned, shortened>>

(* ImportAll, in one transaction: the hosts of an export get new ids, p is *)
(* their primary domains and x whose additional domain a domain is.  Only  *)
(* the unique index of each table is in the way of an import, which then   *)
(* changes nothing.  It names every table but host_domains: without the    *)
(* cascade a row left over may be in the way too.                          *)
ImportAll(g, new, p, x, cascade) ==
    /\ Ask(g) /\ \A h \in new : domain[h] = Unborn
    /\ \A h, k \in new : p[h] = p[k] => h = k
    /\ LET ext == IF cascade THEN [d \in Domain |-> IF extra[d] \in Host /\ Live(extra[d])
                                                    THEN Nobody ELSE extra[d]]
                             ELSE extra IN
       /\ \A d \in Domain : x[d] # Nobody => ext[d] = Nobody
       /\ extra' = [d \in Domain |-> IF x[d] # Nobody THEN x[d] ELSE ext[d]]
       /\ orphaned' = (orphaned \/ \E d \in Domain : ext[d] # Nobody)
    /\ domain' = [k \in Host |-> IF k \in new THEN p[k] ELSE IF Live(k) THEN Gone ELSE domain[k]]
    /\ ups' = [k \in Host |-> IF k \in new THEN {g} ELSE {}]
    /\ route' = [k \in Host |-> IF k \in new THEN g ELSE Nobody]
    /\ unchecked' = (unchecked \/ \E h \in new : x[p[h]] \notin {h, Nobody})
    /\ raced' = (raced \/ Others(g) # {})
    /\ apart' = apart \cup {op[c].host : c \in Others(g)}
    /\ UNCHANGED <<op, shortened>>

-----------------------------------------------------------------------------
(* What a goroutine begins: requests of one transaction end at once. *)
Begin(g) ==
    \/ \E h \in Host, p \in Domain : \E xs \in SUBSET (Domain \ {p}) :
          UpdateRead(g, h, p, xs) \/ \E cascade \in BOOLEAN : Create(g, h, p, xs, cascade)
    \/ \E h \in Host : ToggleRead(g, h) \/ \E cascade \in BOOLEAN : Delete(g, h, cascade)
    \/ \E h \in Host, d \in Domain :
          CoreRename(g, h, d) \/ \E src \in Host : CloneHost(g, h, src, d)
    \/ \E new \in SUBSET {h \in Host : domain[h] = Unborn}, cascade \in BOOLEAN :
          \E p \in [new -> Domain], x \in [Domain -> new \cup {Nobody}] :
              ImportAll(g, new, p, x, cascade)

Continue(g) ==
    \/ \E k \in Host :
          \/ UpdatePromote(g, k) \/ UpdatePromoteFails(g, k) \/ UpdateDropExtras(g, k)
          \/ \E cascade \in BOOLEAN : UpdateDropHost(g, k, cascade)
    \/ UpdateCheck(g) \/ \E failed \in SUBSET {"read", "domains", "upstreams"} : UpdateWipe(g, failed)
    \/ UpdateRefused(g) \/ UpdateSave(g) \/ UpdateDomains(g) \/ UpdateUpstreams(g)
    \/ ToggleSave(g) \/ ToggleFails(g)

Request(g) == IF op[g].pc = "idle" THEN Begin(g) ELSE Continue(g)

Next == \E g \in Client : Request(g)

Spec == Init /\ [][Next]_vars

-----------------------------------------------------------------------------
TypeOK ==
    /\ domain \in [Host -> Domain \cup {Unborn, Gone}]
    /\ extra \in [Domain -> Host \cup {Nobody}]
    /\ ups \in [Host -> SUBSET Writer]
    /\ route \in [Host -> Writer \cup {Nobody}]
    /\ op \in [Client -> Op]
    /\ asked \in Nat
    /\ apart \subseteq Host
    /\ shortened \subseteq Host
    /\ raced \in BOOLEAN /\ unchecked \in BOOLEAN /\ orphaned \in BOOLEAN

(* Two sites of one address make every later configuration invalid.        *)
OneSitePerDomain ==
    \A d \in Domain : \A h, k \in Host : Serves(h, d) /\ Serves(k, d) => h = k

(* Claims and checks give a domain to one host, so long as no change falls *)
(* between the steps of another, no host was named after the incomplete    *)
(* check of CloneHost or UpdateHost, and no import brought two hosts of    *)
(* which one's additional domain is the other's primary.                   *)
CheckedDomainsAreUnique == ~raced /\ ~unchecked => OneSitePerDomain

(* "Take over that exact address": with the foreign keys enforced, a host  *)
(* can be given any domains whatever the others have; a row left behind by *)
(* a deletion or a race would refuse its domain for ever.  Nor is anything *)
(* in the way of an update that nothing overlapped, once its claim has     *)
(* gone through the owners one statement after the other.                  *)
EveryDomainCanBeClaimed ==
    ~raced /\ ~orphaned =>
        /\ \A h \in {k \in Host : domain[k] # Gone}, want \in SUBSET Domain :
              \A next \in Promotions(h, want) :
                  NoConflict(h, want, ClaimedDomain(h, want, next),
                                      ClaimedExtra(h, want, next, TRUE))
        /\ \A g \in Client : op[g].pc = "claiming" /\ op[g].owners = {} =>
              NoConflict(op[g].host, Want(g), domain, extra)

(* When no request is midway, a host that no failed and no overlapping     *)
(* request has touched has the upstreams of one request, and its route     *)
(* names one of them, or one that an update with fewer upstreams deleted.  *)
UndisturbedHostIsWhole ==
    \A h \in Host : Live(h) /\ h \notin apart /\ Quiet =>
        /\ Cardinality(ups[h]) = 1
        /\ route[h] \in ups[h] \cup {Nobody} \/ h \in shortened
=============================================================================
