--------------------------- MODULE HostRowsProofs ---------------------------
(***************************************************************************)
(* What the three properties of HostRows rest on, for every set of         *)
(* clients, hosts and domains and any number of requests.                  *)
(*                                                                         *)
(* The properties speak of a state in which nothing has gone wrong; the    *)
(* invariant adds what holds midway through a request: the hosts an update *)
(* has yet to take domains from are all that is in its way                 *)
(* (OwnersAreKnown) and can become what it decided (HeirsAreFree), what it *)
(* has claimed stays free until it writes it (Claimed), what a toggle has  *)
(* read is what the tables still say (ReadIsFresh), and where the          *)
(* upstreams of a host are while its rows are deleted and written again    *)
(* (UpstreamsOfUpdate).                                                    *)
(***************************************************************************)
EXTENDS HostRows, FiniteSetTheorems, TLAPS

Updating == {"claimed", "wiped", "saved", "named"}
Rewriting == {"wiped", "saved", "named"}

(* An id that is not used yet has no rows and no requests. *)
UnbornIsFresh ==
    /\ \A h \in Host : domain[h] = Unborn => route[h] = Nobody /\ Extras(h) = {}
    /\ \A g \in Client : op[g].pc # "idle" =>
          /\ op[g].host \in Host /\ op[g].primary \in Domain
          /\ domain[op[g].host] # Unborn
          /\ op[g].host \notin op[g].owners

-----------------------------------------------------------------------------
(* So long as no two changes overlapped, a request can rely on this: *)

Claimed(g) ==
    op[g].pc \in Updating =>
        /\ NoConflict(op[g].host, Want(g), domain, extra)
        /\ op[g].pc \in {"saved", "named"} => domain[op[g].host] = op[g].primary

ReadIsFresh(g) ==
    op[g].pc = "toggle" =>
        /\ op[g].primary = domain[op[g].host]
        /\ op[g].extras = Extras(op[g].host)

HeirsAreFree(g) ==
    op[g].pc = "claiming" =>
        \A k \in op[g].owners : op[g].heir[k] \in Domain =>
            extra[op[g].heir[k]] = k /\ op[g].heir[k] \notin Want(g)

Orderly(g) ==
    /\ op[g].pc # "idle" => Live(op[g].host)
    /\ Claimed(g) /\ ReadIsFresh(g) /\ HeirsAreFree(g)

OwnersAreKnown(g) ==
    op[g].pc = "claiming" =>
        /\ \A k \in Host \ {op[g].host} :
              domain[k] \in Want(g) => k \in op[g].owners /\ op[g].heir[k] # Nobody
        /\ \A d \in Want(g) : extra[d] \in {op[g].host, Nobody} \cup op[g].owners

NoOrphanRows == \A d \in Domain : extra[d] # Nobody => Live(extra[d])

InOrder ==
    ~raced =>
        /\ \A g \in Client : Orderly(g)
        /\ ~orphaned => NoOrphanRows /\ \A g \in Client : OwnersAreKnown(g)
        /\ ~unchecked => OneSitePerDomain

-----------------------------------------------------------------------------
(* So long as no request failed midway or overlapped another on this host: *)

Routed(h, w) == route[h] \in {w, Nobody} \/ h \in shortened

Whole(h) == \E w \in Writer : ups[h] = {w} /\ Routed(h, w)

UpstreamsOfUpdate(h) ==
    \A g \in Client : op[g].host = h =>
        /\ op[g].pc # "idle" => Live(h)
        /\ op[g].pc \in Rewriting =>
              ups[h] = {} /\ \E w \in Writer : op[g].ups = {w} /\ Routed(h, w)
        /\ op[g].pc = "toggle" => op[g].ups = ups[h]

WholeUnlessRewritten(h) ==
    Live(h) /\ (\A g \in Client : op[g].host = h => op[g].pc \notin Rewriting) => Whole(h)

Undisturbed(h) == UpstreamsOfUpdate(h) /\ WholeUnlessRewritten(h)

IInv ==
    /\ TypeOK /\ UnbornIsFresh /\ InOrder
    /\ \A h \in Host \ apart : Undisturbed(h)
-----------------------------------------------------------------------------
LEMMA InitIInv == Init => IInv
<1> SUFFICES ASSUME Init PROVE IInv
    OBVIOUS
<1>1. PICK h \in Host, d \in Domain :
        /\ domain = [k \in Host |-> IF k = h THEN d ELSE Unborn]
        /\ extra \in [Domain -> {Nobody, h}]
        /\ extra[d] = Nobody
        /\ ups = [k \in Host |-> IF k = h THEN {Original} ELSE {}]
        /\ route = [k \in Host |-> IF k = h THEN Original ELSE Nobody]
        /\ op = [g \in Client |-> NoOp]
        /\ asked = 0 /\ apart = {} /\ raced = FALSE /\ unchecked = FALSE /\ orphaned = FALSE
        /\ shortened = {}
    BY DEF Init
<1>2. NoOp \in Op /\ NoOp.pc = "idle"
    BY DEF NoOp, NoHeir, Op
<1>3. Unborn \notin Domain /\ Nobody \notin Host
    BY HostRowsAssumption
<1>4. TypeOK
    BY <1>1, <1>2 DEF TypeOK, Writer
<1>5. UnbornIsFresh
    BY <1>1, <1>2, <1>3 DEF UnbornIsFresh, Extras
<1>6. InOrder
    <2>1. \A k \in Host : Live(k) => k = h
        BY <1>1, <1>3 DEF Live
    <2>2. NoOrphanRows
        BY <1>1, <1>3 DEF NoOrphanRows, Live
    <2>3. \A g \in Client : op[g].pc = "idle"
        BY <1>1, <1>2
    <2>4. \A g \in Client : Orderly(g) /\ OwnersAreKnown(g)
        BY <2>3 DEF Orderly, Claimed, Updating, ReadIsFresh, HeirsAreFree, OwnersAreKnown
    <2> QED
        BY <2>1, <2>2, <2>4 DEF InOrder, OneSitePerDomain, Serves
<1>7. \A k \in Host : Undisturbed(k)
    <2>1. \A k \in Host : UpstreamsOfUpdate(k)
        BY <1>1, <1>2 DEF UpstreamsOfUpdate, Rewriting
    <2>2. \A k \in Host : WholeUnlessRewritten(k)
        BY <1>1, <1>3 DEF WholeUnlessRewritten, Live, Whole, Routed, Writer
    <2> QED
        BY <2>1, <2>2 DEF Undisturbed
<1> QED
    BY <1>4, <1>5, <1>6, <1>7 DEF IInv

-----------------------------------------------------------------------------
(* What a step does to op. *)

LEMMA OpBecomes ==
    ASSUME op \in [Client -> Op], NEW g \in Client, NEW x \in Op, op' = [op EXCEPT ![g] = x]
    PROVE  /\ op' \in [Client -> Op] /\ op'[g] = x
           /\ \A k \in Client \ {g} : op'[k] = op[k]
OBVIOUS

LEMMA OpEnds ==
    ASSUME op \in [Client -> Op], NEW g \in Client, Done(g)
    PROVE  /\ op' \in [Client -> Op] /\ op'[g].pc = "idle"
           /\ \A k \in Client \ {g} : op'[k] = op[k]
<1>1. NoOp \in Op /\ NoOp.pc = "idle"
    BY DEF NoOp, NoHeir, Op
<1> QED
    BY <1>1 DEF Done

LEMMA OpMoves ==
    ASSUME op \in [Client -> Op], NEW g \in Client, NEW pc \in {"saved", "named"},
           op' = [op EXCEPT ![g] = [@ EXCEPT !.pc = pc]]
    PROVE  /\ op' \in [Client -> Op]
           /\ op'[g].pc = pc /\ op'[g].host = op[g].host /\ op'[g].primary = op[g].primary
           /\ op'[g].extras = op[g].extras /\ op'[g].ups = op[g].ups
           /\ op'[g].owners = op[g].owners
           /\ \A k \in Client \ {g} : op'[k] = op[k]
<1> DEFINE x == [op[g] EXCEPT !.pc = pc]
<1>1. x \in Op
    BY DEF Op
<1>2. /\ x.pc = pc /\ x.host = op[g].host /\ x.primary = op[g].primary
      /\ x.extras = op[g].extras /\ x.ups = op[g].ups /\ x.owners = op[g].owners
    BY DEF Op
<1>3. op' = [op EXCEPT ![g] = x]
    OBVIOUS
<1> HIDE DEF x
<1> QED
    BY <1>1, <1>2, <1>3, OpBecomes

LEMMA OpChecks ==
    ASSUME op \in [Client -> Op], NEW g \in Client,
           op' = [op EXCEPT ![g] = [@ EXCEPT !.pc = "claimed", !.heir = NoHeir]]
    PROVE  /\ op' \in [Client -> Op]
           /\ op'[g].pc = "claimed" /\ op'[g].host = op[g].host /\ op'[g].primary = op[g].primary
           /\ op'[g].extras = op[g].extras /\ op'[g].owners = op[g].owners
           /\ \A k \in Client \ {g} : op'[k] = op[k]
<1> DEFINE x == [op[g] EXCEPT !.pc = "claimed", !.heir = NoHeir]
<1>1. x \in Op
    BY DEF Op, NoHeir
<1>2. /\ x.pc = "claimed" /\ x.host = op[g].host /\ x.primary = op[g].primary
      /\ x.extras = op[g].extras /\ x.owners = op[g].owners
    BY DEF Op
<1>3. op' = [op EXCEPT ![g] = x]
    OBVIOUS
<1> HIDE DEF x
<1> QED
    BY <1>1, <1>2, <1>3, OpBecomes

LEMMA OpWipes ==
    ASSUME op \in [Client -> Op], NEW g \in Client, NEW u \in SUBSET Writer,
           op' = [op EXCEPT ![g] = [@ EXCEPT !.pc = "wiped", !.ups = u]]
    PROVE  /\ op' \in [Client -> Op]
           /\ op'[g].pc = "wiped" /\ op'[g].host = op[g].host /\ op'[g].primary = op[g].primary
           /\ op'[g].extras = op[g].extras /\ op'[g].ups = u /\ op'[g].owners = op[g].owners
           /\ \A k \in Client \ {g} : op'[k] = op[k]
<1> DEFINE x == [op[g] EXCEPT !.pc = "wiped", !.ups = u]
<1>1. x \in Op
    BY DEF Op
<1>2. /\ x.pc = "wiped" /\ x.host = op[g].host /\ x.primary = op[g].primary
      /\ x.extras = op[g].extras /\ x.ups = u /\ x.owners = op[g].owners
    BY DEF Op
<1>3. op' = [op EXCEPT ![g] = x]
    OBVIOUS
<1> HIDE DEF x
<1> QED
    BY <1>1, <1>2, <1>3, OpBecomes

(* The claim of g is done with the owner k. *)
LEMMA OpDrops ==
    ASSUME op \in [Client -> Op], NEW g \in Client, NEW k \in Host,
           op' = [op EXCEPT ![g] = [@ EXCEPT !.owners = op[g].owners \ {k}]]
    PROVE  /\ op' \in [Client -> Op]
           /\ op'[g].pc = op[g].pc /\ op'[g].host = op[g].host
           /\ op'[g].primary = op[g].primary /\ op'[g].extras = op[g].extras
           /\ op'[g].owners = op[g].owners \ {k} /\ op'[g].heir = op[g].heir
           /\ \A c \in Client \ {g} : op'[c] = op[c]
<1> DEFINE x == [op[g] EXCEPT !.owners = op[g].owners \ {k}]
<1>1. x \in Op
    BY DEF Op
<1>2. /\ x.pc = op[g].pc /\ x.host = op[g].host /\ x.primary = op[g].primary
      /\ x.extras = op[g].extras /\ x.owners = op[g].owners \ {k} /\ x.heir = op[g].heir
    BY DEF Op
<1>3. op' = [op EXCEPT ![g] = x]
    OBVIOUS
<1> HIDE DEF x
<1> QED
    BY <1>1, <1>2, <1>3, OpBecomes

LEMMA OpPromotes ==
    ASSUME op \in [Client -> Op], NEW g \in Client, NEW k \in Host,
           op' = [op EXCEPT ![g] = [@ EXCEPT !.heir = [op[g].heir EXCEPT ![k] = Nobody]]]
    PROVE  /\ op' \in [Client -> Op]
           /\ op'[g].pc = op[g].pc /\ op'[g].host = op[g].host
           /\ op'[g].primary = op[g].primary /\ op'[g].extras = op[g].extras
           /\ op'[g].owners = op[g].owners
           /\ \A i \in Host : op'[g].heir[i] = IF i = k THEN Nobody ELSE op[g].heir[i]
           /\ \A c \in Client \ {g} : op'[c] = op[c]
<1> DEFINE r == [op[g].heir EXCEPT ![k] = Nobody]
           x == [op[g] EXCEPT !.heir = r]
<1>1. op[g].heir \in [Host -> Domain \cup {Gone, Nobody}]
    BY DEF Op
<1>2. /\ r \in [Host -> Domain \cup {Gone, Nobody}]
      /\ \A i \in Host : r[i] = IF i = k THEN Nobody ELSE op[g].heir[i]
    BY <1>1
<1>3. op' = [op EXCEPT ![g] = x]
    OBVIOUS
<1> HIDE DEF r
<1>4. x \in Op
    BY <1>2 DEF Op
<1>5. /\ x.pc = op[g].pc /\ x.host = op[g].host /\ x.primary = op[g].primary
      /\ x.extras = op[g].extras /\ x.owners = op[g].owners /\ x.heir = r
    BY DEF Op
<1> HIDE DEF x
<1> QED
    BY <1>2, <1>3, <1>4, <1>5, OpBecomes
-----------------------------------------------------------------------------
(* What a claim for h takes from the others, and what it leaves. *)
Takes(h, want, dom, ext) ==
    /\ dom \in [Host -> Domain \cup {Unborn, Gone}]
    /\ ext \in [Domain -> Host \cup {Nobody}]
    /\ dom[h] = domain[h] /\ \A d \in Domain : ext[d] = h <=> extra[d] = h
    /\ \A k \in Host : dom[k] # domain[k] =>
          /\ k \in Losers(h, want) /\ Live(k)
          /\ dom[k] = Gone => k \in Doomed(h, want)
          /\ dom[k] # Gone => dom[k] \in Domain /\ extra[dom[k]] = k
    /\ \A d \in Domain : ext[d] # Nobody => ext[d] = extra[d]

(* After it the domains that are left belong to who had them, and no row   *)
(* belongs to a host the claim deleted, unless it says so.                 *)
Leaves(h, want, dom, ext) ==
    /\ \A k \in Host : dom[k] \in Domain => Live(k)
    /\ \A k \in Host : dom[k] = Unborn <=> domain[k] = Unborn
    /\ \A k \in Host, d \in Domain :
          dom[k] \in Domain /\ (dom[k] = d \/ ext[d] = k) => Serves(k, d)
    /\ NoOrphanRows /\ (~\E d \in Domain : ext[d] \in Doomed(h, want)) =>
          \A d \in Domain : ext[d] # Nobody => dom[ext[d]] \in Domain

LEMMA ClaimTakes ==
    ASSUME TypeOK, NEW h \in Host, NEW want \in SUBSET Domain,
           NEW next \in Promotions(h, want), NEW cascade \in BOOLEAN
    PROVE  Takes(h, want, ClaimedDomain(h, want, next), ClaimedExtra(h, want, next, cascade))
<1> DEFINE dom == ClaimedDomain(h, want, next)
           ext == ClaimedExtra(h, want, next, cascade)
<1>1. /\ domain \in [Host -> Domain \cup {Unborn, Gone}]
      /\ extra \in [Domain -> Host \cup {Nobody}]
    BY DEF TypeOK
<1>2. Unborn \notin Domain /\ Gone \notin Domain /\ Nobody \notin Host
    BY HostRowsAssumption
<1>3. /\ \A k \in Losers(h, want) : k \in Host /\ k # h /\ Live(k)
      /\ Doomed(h, want) \subseteq Losers(h, want) /\ Heirs(h, want) \subseteq Losers(h, want)
    BY DEF Losers, Serves, Doomed, Heirs
<1>4. \A k \in Heirs(h, want) : next[k] \in Domain /\ extra[next[k]] = k
    BY DEF Promotions, Remaining, Extras
<1>5. \A k \in Host : dom[k] = IF k \in Doomed(h, want) THEN Gone
                               ELSE IF k \in Heirs(h, want) THEN next[k] ELSE domain[k]
    BY DEF ClaimedDomain
<1>6. \A d \in Domain : ext[d] = extra[d] \/ ext[d] = Nobody
    BY DEF ClaimedExtra
<1>7. \A d \in Domain : extra[d] = h => ext[d] = h
    BY <1>3 DEF ClaimedExtra
<1>8. dom \in [Host -> Domain \cup {Unborn, Gone}]
    BY <1>1, <1>4 DEF ClaimedDomain
<1>9. ext \in [Domain -> Host \cup {Nobody}]
    BY <1>1 DEF ClaimedExtra
<1>10. \A k \in Host : dom[k] # domain[k] =>
                 /\ k \in Losers(h, want) /\ Live(k)
                 /\ dom[k] = Gone => k \in Doomed(h, want)
                 /\ dom[k] # Gone => dom[k] \in Domain /\ extra[dom[k]] = k
    BY <1>2, <1>3, <1>4, <1>5
<1>11. dom[h] = domain[h]
    BY <1>3, <1>5
<1> QED
    BY <1>2, <1>6, <1>7, <1>8, <1>9, <1>10, <1>11 DEF Takes

LEMMA ClaimLeaves ==
    ASSUME TypeOK, NEW h \in Host, NEW want \in SUBSET Domain,
           NEW next \in Promotions(h, want), NEW cascade \in BOOLEAN
    PROVE  Leaves(h, want, ClaimedDomain(h, want, next), ClaimedExtra(h, want, next, cascade))
<1> DEFINE dom == ClaimedDomain(h, want, next)
           ext == ClaimedExtra(h, want, next, cascade)
<1>1. /\ domain \in [Host -> Domain \cup {Unborn, Gone}]
      /\ extra \in [Domain -> Host \cup {Nobody}]
    BY DEF TypeOK
<1>2. Unborn \notin Domain /\ Gone \notin Domain /\ Nobody \notin Host
    BY HostRowsAssumption
<1>3. /\ \A k \in Host : dom[k] # domain[k] =>
                 /\ k \in Losers(h, want) /\ Live(k)
                 /\ dom[k] = Gone => k \in Doomed(h, want)
                 /\ dom[k] # Gone => dom[k] \in Domain /\ extra[dom[k]] = k
      /\ \A d \in Domain : ext[d] # Nobody => ext[d] = extra[d]
    BY ClaimTakes DEF Takes
<1> HIDE DEF dom, ext
<1>4. \A k \in Host : dom[k] \in Domain => Live(k)
    BY <1>3 DEF Live
<1>5. \A k \in Host : dom[k] = Unborn <=> domain[k] = Unborn
    BY <1>2, <1>3, HostRowsAssumption DEF Live
<1>6. \A k \in Host, d \in Domain :
                 dom[k] \in Domain /\ (dom[k] = d \/ ext[d] = k) => Serves(k, d)
    BY <1>2, <1>3, <1>4 DEF Serves, Live
<1>7. NoOrphanRows /\ (~\E d \in Domain : ext[d] \in Doomed(h, want)) =>
                 \A d \in Domain : ext[d] # Nobody => dom[ext[d]] \in Domain
    BY <1>1, <1>2, <1>3 DEF NoOrphanRows, Live
<1> QED
    BY <1>4, <1>5, <1>6, <1>7 DEF Leaves, dom, ext
-----------------------------------------------------------------------------
(* What the parts of the invariant need of a step. *)

LEMMA NoteSays ==
    ASSUME TypeOK, NEW g \in Client, NEW h \in Host, Note(g, h)
    PROVE  /\ raced' \in BOOLEAN /\ apart' \subseteq Host /\ apart \subseteq apart'
           /\ ~raced' => ~raced /\ \A k \in Client \ {g} : op[k].pc = "idle"
           /\ h \notin apart' => \A k \in Client \ {g} : op[k].pc = "idle" \/ op[k].host # h
BY DEF TypeOK, Note, Others, Sharing

LEMMA IdleIsOrderly ==
    ASSUME NEW g \in Client, op'[g].pc = "idle"
    PROVE  Orderly(g)' /\ OwnersAreKnown(g)'
BY DEF Orderly, Claimed, Updating, ReadIsFresh, HeirsAreFree, OwnersAreKnown

(* The only request under way ends, or there was none. *)
LEMMA NobodyLeft ==
    ASSUME NEW g \in Client, \A k \in Client \ {g} : op[k].pc = "idle" /\ op'[k] = op[k],
           op'[g].pc = "idle"
    PROVE  \A k \in Client : Orderly(k)' /\ OwnersAreKnown(k)'
<1>1. \A k \in Client : op'[k].pc = "idle"
    OBVIOUS
<1> QED
    BY <1>1, IdleIsOrderly

(* The only request under way goes on. *)
LEMMA OneGoesOn ==
    ASSUME NEW g \in Client, \A k \in Client \ {g} : op[k].pc = "idle" /\ op'[k] = op[k],
           Orderly(g)'
    PROVE  /\ \A k \in Client : Orderly(k)'
           /\ OwnersAreKnown(g)' => \A k \in Client : OwnersAreKnown(k)'
<1>1. \A k \in Client \ {g} : op'[k].pc = "idle"
    OBVIOUS
<1> QED
    BY <1>1, IdleIsOrderly

(* An update whose claim is over. *)
LEMMA UpdateGoesOn ==
    ASSUME NEW g \in Client, op'[g].pc \in Updating, Live(op[g].host)',
           NoConflict(op[g].host, Want(g), domain, extra)',
           op'[g].pc \in {"saved", "named"} => domain'[op'[g].host] = op'[g].primary
    PROVE  Orderly(g)' /\ OwnersAreKnown(g)'
BY DEF Orderly, Claimed, Updating, ReadIsFresh, HeirsAreFree, OwnersAreKnown

(* The step changes neither the domains nor the requests of others. *)
LEMMA OthersGoOn ==
    ASSUME NEW g \in Client, \A k \in Client \ {g} : op'[k] = op[k],
           domain' = domain, extra' = extra
    PROVE  /\ (\A k \in Client : Orderly(k)) /\ Orderly(g)' => \A k \in Client : Orderly(k)'
           /\ (\A k \in Client : OwnersAreKnown(k)) /\ OwnersAreKnown(g)' =>
                 \A k \in Client : OwnersAreKnown(k)'
<1> SUFFICES ASSUME NEW k \in Client, k # g
             PROVE  /\ Orderly(k) => Orderly(k)'
                    /\ OwnersAreKnown(k) => OwnersAreKnown(k)'
    OBVIOUS
<1>1. op'[k] = op[k] /\ Want(k)' = Want(k)
    BY DEF Want
<1> QED
    BY <1>1 DEF Orderly, Claimed, ReadIsFresh, HeirsAreFree, OwnersAreKnown, NoConflict, Extras,
                Live

(* A host the step has nothing to do with, or whose update only begins. *)
LEMMA OthersUndisturbed ==
    ASSUME NEW k \in Host, Undisturbed(k), NEW g \in Client,
           \A c \in Client \ {g} : op'[c] = op[c],
           op[g].pc \notin Rewriting \/ op[g].host # k,
           \/ op'[g].pc = "idle" \/ op'[g].host # k
           \/ op'[g].pc \in {"claiming", "claimed"} /\ Live(k)',
           ups'[k] = ups[k], route'[k] = route[k], shortened \subseteq shortened',
           Live(k)' => Live(k),
           (\E c \in Client \ {g} : op[c].pc # "idle" /\ op[c].host = k) /\ Live(k) => Live(k)'
    PROVE  Undisturbed(k)'
<1>1. "idle" \notin Rewriting /\ "claiming" \notin Rewriting /\ "claimed" \notin Rewriting
    BY DEF Rewriting
<1>2. \A w \in Writer : Routed(k, w) => Routed(k, w)'
    BY DEF Routed
<1>3. UpstreamsOfUpdate(k)'
    <2> SUFFICES ASSUME NEW c \in Client, op'[c].host = k, op'[c].pc # "idle"
                 PROVE  /\ Live(k)'
                        /\ op'[c].pc \in Rewriting =>
                              ups'[k] = {} /\ \E w \in Writer : op'[c].ups = {w} /\ Routed(k, w)'
                        /\ op'[c].pc = "toggle" => op'[c].ups = ups'[k]
        BY <1>1 DEF UpstreamsOfUpdate
    <2>1. CASE c = g
        BY <1>1, <2>1
    <2>2. CASE c # g
        BY <1>2, <2>2 DEF Undisturbed, UpstreamsOfUpdate
    <2> QED
        BY <2>1, <2>2
<1>4. WholeUnlessRewritten(k)'
    <2> SUFFICES ASSUME Live(k)', \A c \in Client : op'[c].host = k => op'[c].pc \notin Rewriting
                 PROVE  Whole(k)'
        BY DEF WholeUnlessRewritten
    <2>1. \A c \in Client : op[c].host = k => op[c].pc \notin Rewriting
        OBVIOUS
    <2>2. Whole(k)
        BY <2>1 DEF Undisturbed, WholeUnlessRewritten
    <2> QED
        BY <1>2, <2>2 DEF Whole
<1> QED
    BY <1>3, <1>4 DEF Undisturbed

(* No request is under way on a host, or the update g only. *)
LEMMA NoneUnderWay ==
    ASSUME NEW k \in Host, NEW g \in Client,
           \A c \in Client \ {g} : op'[c].pc = "idle" \/ op'[c].host # k,
           op'[g].pc = "idle" \/ op'[g].host # k,
           Live(k)' => Whole(k)'
    PROVE  Undisturbed(k)'
<1>1. \A c \in Client : op'[c].host = k => op'[c].pc = "idle"
    OBVIOUS
<1> QED
    BY <1>1 DEF Undisturbed, UpstreamsOfUpdate, WholeUnlessRewritten, Rewriting

LEMMA OneRewrites ==
    ASSUME NEW k \in Host, NEW g \in Client,
           \A c \in Client \ {g} : op'[c].pc = "idle" \/ op'[c].host # k,
           op'[g].host = k, op'[g].pc \in Rewriting, Live(k)', ups'[k] = {},
           \E w \in Writer : op'[g].ups = {w} /\ Routed(k, w)'
    PROVE  Undisturbed(k)'
<1>1. \A c \in Client : op'[c].host = k => op'[c].pc = "idle" \/ c = g
    OBVIOUS
<1>2. "idle" \notin Rewriting /\ "toggle" \notin Rewriting
    BY DEF Rewriting
<1>3. UpstreamsOfUpdate(k)'
    BY <1>1, <1>2 DEF UpstreamsOfUpdate
<1>4. WholeUnlessRewritten(k)'
    BY DEF WholeUnlessRewritten
<1> QED
    BY <1>3, <1>4 DEF Undisturbed

(* Before its rows are deleted and after they are written. *)
LEMMA WholeNow ==
    ASSUME NEW k \in Host, Undisturbed(k), Live(k), NEW g \in Client,
           \A c \in Client \ {g} : op[c].pc = "idle" \/ op[c].host # k,
           op[g].pc \notin Rewriting
    PROVE  Whole(k)
BY DEF Undisturbed, WholeUnlessRewritten, Rewriting

(* What the deletion of a host leaves. *)
LEMMA RemoveSays ==
    ASSUME TypeOK, NEW k \in Host, NEW cascade \in BOOLEAN, RemoveHost(k, cascade)
    PROVE  /\ domain' \in [Host -> Domain \cup {Unborn, Gone}]
           /\ extra' \in [Domain -> Host \cup {Nobody}]
           /\ ups' \in [Host -> SUBSET Writer] /\ route' \in [Host -> Writer \cup {Nobody}]
           /\ orphaned' \in BOOLEAN
           /\ ~Live(k)' /\ (domain'[k] = Unborn <=> domain[k] = Unborn)
           /\ \A h \in Host \ {k} :
                 domain'[h] = domain[h] /\ ups'[h] = ups[h] /\ route'[h] = route[h]
           /\ route'[k] \in {route[k], Nobody}
           /\ \A d \in Domain : extra'[d] = extra[d] \/ (extra[d] = k /\ extra'[d] = Nobody)
           /\ ~orphaned' => ~orphaned /\ (NoOrphanRows => \A d \in Domain : extra'[d] # k)
<1>1. Unborn \notin Domain /\ Gone \notin Domain /\ Unborn # Gone /\ Nobody \notin Host
    BY HostRowsAssumption
<1>2. \A h \in Host : domain'[h] = IF h = k /\ Live(k) THEN Gone ELSE domain[h]
    BY DEF RemoveHost, TypeOK
<1>3. domain' \in [Host -> Domain \cup {Unborn, Gone}]
    BY DEF RemoveHost, TypeOK
<1>4. ~Live(k)' /\ (domain'[k] = Unborn <=> domain[k] = Unborn)
    BY <1>1, <1>2 DEF Live
<1>5. CASE Live(k) /\ cascade
    <2>1. /\ extra' = [d \in Domain |-> IF extra[d] = k THEN Nobody ELSE extra[d]]
          /\ ups' = [ups EXCEPT ![k] = {}]
          /\ route' = [route EXCEPT ![k] = Nobody]
          /\ orphaned' = orphaned
        BY <1>5 DEF RemoveHost
    <2>2. extra' \in [Domain -> Host \cup {Nobody}] /\ ups' \in [Host -> SUBSET Writer]
        BY <2>1 DEF TypeOK
    <2>3. route' \in [Host -> Writer \cup {Nobody}]
        BY <2>1 DEF TypeOK
    <2>4. \A d \in Domain : extra'[d] # k
        BY <1>1, <2>1
    <2> QED
        BY <1>2, <1>3, <1>4, <2>1, <2>2, <2>3, <2>4 DEF TypeOK
<1>6. CASE ~(Live(k) /\ cascade)
    <2>1. extra' = extra /\ ups' = ups /\ route' = route
        BY <1>6 DEF RemoveHost
    <2>2. orphaned' = (orphaned \/ (Live(k) /\ Extras(k) # {}))
        BY <1>6 DEF RemoveHost
    <2>3. ~orphaned' => ~orphaned /\ (NoOrphanRows => \A d \in Domain : extra'[d] # k)
        BY <1>1, <2>1, <2>2 DEF NoOrphanRows, Extras
    <2>4. orphaned' \in BOOLEAN
        BY <2>2 DEF TypeOK
    <2> QED
        BY <1>2, <1>3, <1>4, <2>1, <2>3, <2>4 DEF TypeOK
<1> QED
    BY <1>5, <1>6
-----------------------------------------------------------------------------
(* One lemma per request or step of a request. *)

LEMMA CreateKeeps ==
    ASSUME IInv, NEW g \in Client, NEW h \in Host, NEW p \in Domain,
           NEW xs \in SUBSET Domain, NEW cascade \in BOOLEAN, Create(g, h, p, xs, cascade)
    PROVE  IInv'
<1> DEFINE want == {p} \cup xs
<1>1. PICK next \in Promotions(h, want) :
        /\ NoConflict(h, want, ClaimedDomain(h, want, next), ClaimedExtra(h, want, next, cascade))
        /\ domain' = [ClaimedDomain(h, want, next) EXCEPT ![h] = p]
        /\ extra' = [d \in Domain |-> IF d \in xs THEN h
                                      ELSE ClaimedExtra(h, want, next, cascade)[d]]
        /\ orphaned' = (orphaned \/ \E d \in Domain :
                            ClaimedExtra(h, want, next, cascade)[d] \in Doomed(h, want))
        /\ apart' = apart \cup {k \in Losers(h, want) : \E c \in Client \ {g} : op[c].host = k}
    BY DEF Create
<1>2. /\ TypeOK /\ UnbornIsFresh /\ InOrder /\ op' = op /\ unchecked' = unchecked /\ route' = route
      /\ shortened' = shortened
      /\ op[g].pc = "idle" /\ asked' = asked + 1 /\ domain[h] = Unborn
      /\ ups' = [ups EXCEPT ![h] = {g}]
      /\ raced' = (raced \/ \E k \in Client \ {g} : op[k].pc # "idle")
    BY DEF Create, Ask, Others, IInv
<1> DEFINE dom == ClaimedDomain(h, want, next)
           ext == ClaimedExtra(h, want, next, cascade)
<1>3. want \in SUBSET Domain /\ Unborn \notin Domain /\ Gone \notin Domain /\ Nobody \notin Host
    BY HostRowsAssumption
<1>4. Takes(h, want, dom, ext) /\ Leaves(h, want, dom, ext)
    BY <1>2, <1>3, ClaimTakes, ClaimLeaves
<1>5. dom \in [Host -> Domain \cup {Unborn, Gone}] /\ ext \in [Domain -> Host \cup {Nobody}]
    BY <1>4 DEF Takes
<1>6. /\ NoConflict(h, want, dom, ext)
      /\ domain' = [dom EXCEPT ![h] = p]
      /\ extra' = [d \in Domain |-> IF d \in xs THEN h ELSE ext[d]]
      /\ orphaned' = (orphaned \/ \E d \in Domain : ext[d] \in Doomed(h, want))
      /\ apart' = apart \cup {k \in Losers(h, want) : \E c \in Client \ {g} : op[c].host = k}
      /\ Losers(h, want) \subseteq Host
    BY <1>1 DEF Losers
<1> HIDE DEF dom, ext, want
<1>7. /\ \A k \in Host : domain'[k] = IF k = h THEN p ELSE dom[k]
      /\ \A d \in Domain : extra'[d] = IF d \in xs THEN h ELSE ext[d]
      /\ \A k \in Host : ups'[k] = IF k = h THEN {g} ELSE ups[k]
    BY <1>2, <1>5, <1>6 DEF TypeOK
<1>8. TypeOK'
    <2>1. domain' \in [Host -> Domain \cup {Unborn, Gone}]
        BY <1>5, <1>6
    <2>2. extra' \in [Domain -> Host \cup {Nobody}]
        BY <1>5, <1>6
    <2>3. ups' \in [Host -> SUBSET Writer]
        BY <1>2 DEF TypeOK, Writer
    <2>4. apart' \subseteq Host /\ orphaned' \in BOOLEAN
        BY <1>2, <1>6 DEF TypeOK
    <2>5. asked' \in Nat /\ raced' \in BOOLEAN
        BY <1>2 DEF TypeOK
    <2> QED
        BY <1>2, <2>1, <2>2, <2>3, <2>4, <2>5 DEF TypeOK
<1>9. \A k \in Host : Extras(k) = {} /\ k # h => Extras(k)' = {}
    BY <1>3, <1>4, <1>7 DEF Extras, Takes
<1>10. UnbornIsFresh'
    BY <1>2, <1>3, <1>4, <1>7, <1>9 DEF UnbornIsFresh, Leaves
<1>11. Extras(h) = {} /\ \A c \in Client : op[c].pc # "idle" => op[c].host # h
    BY <1>2 DEF UnbornIsFresh
<1>12. InOrder'
    <2> SUFFICES ASSUME ~raced' PROVE InOrder'
        BY DEF InOrder
    <2>1. ~raced /\ \A k \in Client \ {g} : op[k].pc = "idle"
        BY <1>2
    <2>2. \A k \in Client : Orderly(k)' /\ OwnersAreKnown(k)'
        BY <1>2, <2>1, NobodyLeft
    <2>3. ~orphaned' => NoOrphanRows'
        <3> SUFFICES ASSUME ~orphaned', NEW d \in Domain, extra'[d] # Nobody
                     PROVE  domain'[extra'[d]] \in Domain
            BY DEF NoOrphanRows, Live
        <3>1. \A e \in Domain : ext[e] # Nobody => dom[ext[e]] \in Domain
            BY <1>2, <1>4, <1>6, <2>1 DEF InOrder, Leaves
        <3> QED
            BY <1>3, <1>5, <1>7, <3>1
    <2>4. ~unchecked' => OneSitePerDomain'
        <3> SUFFICES ASSUME ~unchecked', NEW d \in Domain, NEW j \in Host, NEW k \in Host,
                            Serves(j, d)', Serves(k, d)'
                     PROVE  j = k
            BY DEF OneSitePerDomain
        <3>1. \A i \in Host : i # h /\ Serves(i, d)' => Serves(i, d) /\ d \notin want
            BY <1>3, <1>4, <1>6, <1>7 DEF Serves, Live, NoConflict, Leaves
        <3>2. Serves(h, d)' => d \in want
            BY <1>4, <1>7, <1>11 DEF Serves, Extras, Takes, want
        <3>3. OneSitePerDomain
            BY <1>2, <2>1 DEF InOrder
        <3> QED
            BY <3>1, <3>2, <3>3 DEF OneSitePerDomain
    <2> QED
        BY <2>2, <2>3, <2>4 DEF InOrder
<1>13. ASSUME NEW k \in Host \ apart' PROVE Undisturbed(k)'
    <2>1. Undisturbed(k)
        BY <1>6, <1>13 DEF IInv
    <2>2. CASE k = h
        <3>1. ups'[k] = {g} /\ route'[k] = Nobody /\ g \in Writer
            BY <1>2, <1>7, <2>2 DEF UnbornIsFresh, Writer
        <3>2. Whole(k)'
            BY <3>1 DEF Whole, Routed
        <3> QED
            BY <1>2, <1>11, <2>2, <3>2, NoneUnderWay
    <2>3. CASE k # h
        <3>1. Live(k)' => Live(k)
            BY <1>4, <1>7, <2>3 DEF Live, Leaves
        <3>2. (\E c \in Client \ {g} : op[c].pc # "idle" /\ op[c].host = k) /\ Live(k) => Live(k)'
            BY <1>4, <1>6, <1>7, <1>13, <2>3 DEF Live, Takes
        <3>3. "idle" \notin Rewriting
            BY DEF Rewriting
        <3> QED
            BY <1>2, <1>7, <2>1, <2>3, <3>1, <3>2, <3>3, OthersUndisturbed
    <2> QED
        BY <2>2, <2>3
<1> QED
    BY <1>8, <1>10, <1>12, <1>13 DEF IInv

LEMMA ReadKeeps ==
    ASSUME IInv, NEW g \in Client, NEW h \in Host, NEW p \in Domain,
           NEW xs \in SUBSET Domain, UpdateRead(g, h, p, xs)
    PROVE  IInv'
<1> DEFINE want == {p} \cup xs
           losers == Losers(h, want)
           doomed == Doomed(h, want)
           heirs == Heirs(h, want)
<1>1. /\ TypeOK /\ UnbornIsFresh /\ InOrder
      /\ op[g].pc = "idle" /\ Live(h) /\ asked' = asked + 1
      /\ domain' = domain /\ extra' = extra
      /\ UNCHANGED <<ups, route, unchecked, orphaned, shortened>>
      /\ Note(g, h)
    BY DEF UpdateRead, Ask, tables, IInv
<1>2. PICK next \in Promotions(h, want) :
        op' = [op EXCEPT ![g] =
                 [pc |-> "claiming", host |-> h, primary |-> p, extras |-> xs, ups |-> {},
                  owners |-> losers,
                  heir |-> [k \in Host |-> IF k \in doomed THEN Gone
                                           ELSE IF k \in heirs THEN next[k] ELSE Nobody]]]
    BY DEF UpdateRead
<1> DEFINE r == [k \in Host |-> IF k \in doomed THEN Gone
                                ELSE IF k \in heirs THEN next[k] ELSE Nobody]
<1>3. /\ Nobody \notin Domain /\ Nobody # Gone /\ Gone \notin Domain /\ Unborn \notin Domain
      /\ "claiming" \notin Updating /\ "claiming" \notin Rewriting /\ "idle" \notin Rewriting
    BY HostRowsAssumption DEF Updating, Rewriting
<1>4. /\ losers \subseteq Host /\ h \notin losers
      /\ \A k \in heirs : next[k] \in Domain /\ extra[next[k]] = k /\ next[k] \notin want
    BY DEF Losers, Heirs, Promotions, Remaining, Extras
<1>5. \A k \in Host : domain[k] \in want => k \notin losers \/ k \in doomed \/ k \in heirs
    BY DEF Doomed, Heirs
<1>6. /\ \A k \in Host \ {h} : domain[k] \in want => k \in losers
      /\ \A d \in want : NoOrphanRows /\ extra[d] \notin {h, Nobody} => extra[d] \in losers
    BY <1>1 DEF Losers, Serves, Live, NoOrphanRows, TypeOK
<1> HIDE DEF losers, doomed, heirs
<1>7. /\ r \in [Host -> Domain \cup {Gone, Nobody}]
      /\ \A k \in Host : r[k] \in Domain => extra[r[k]] = k /\ r[k] \notin want
      /\ \A k \in Host : k \in doomed \/ k \in heirs => r[k] # Nobody
    BY <1>3, <1>4
<1>8. /\ op' \in [Client -> Op]
      /\ op'[g].pc = "claiming" /\ op'[g].host = h /\ op'[g].primary = p
      /\ op'[g].extras = xs /\ op'[g].owners = losers /\ op'[g].heir = r
      /\ \A k \in Client \ {g} : op'[k] = op[k]
    <2> DEFINE y == [pc |-> "claiming", host |-> h, primary |-> p, extras |-> xs,
                     ups |-> {}, owners |-> losers, heir |-> r]
    <2>1. op \in [Client -> Op] /\ op' = [op EXCEPT ![g] = y]
        BY <1>1, <1>2 DEF TypeOK
    <2> HIDE DEF r
    <2>2. y \in Op
        BY <1>4, <1>7 DEF Op
    <2>3. /\ y.pc = "claiming" /\ y.host = h /\ y.primary = p /\ y.extras = xs
          /\ y.owners = losers /\ y.heir = r
        OBVIOUS
    <2> HIDE DEF y
    <2> QED
        BY <2>1, <2>2, <2>3, OpBecomes
<1> HIDE DEF r
<1>9. /\ raced' \in BOOLEAN /\ apart' \subseteq Host /\ apart \subseteq apart'
      /\ ~raced' => ~raced /\ \A k \in Client \ {g} : op[k].pc = "idle"
      /\ h \notin apart' => \A k \in Client \ {g} : op[k].pc = "idle" \/ op[k].host # h
    BY <1>1, NoteSays
<1>10. TypeOK'
    BY <1>1, <1>8, <1>9 DEF TypeOK
<1>11. UnbornIsFresh'
    <2>1. domain[h] # Unborn
        BY <1>1, <1>3 DEF Live
    <2> QED
        BY <1>1, <1>4, <1>8, <2>1 DEF UnbornIsFresh, Extras
<1>12. InOrder'
    <2> SUFFICES ASSUME ~raced' PROVE InOrder'
        BY DEF InOrder
    <2>1. ~raced /\ \A k \in Client \ {g} : op[k].pc = "idle" /\ op'[k] = op[k]
        BY <1>8, <1>9
    <2>2. Want(g)' = want
        BY <1>8 DEF Want
    <2>3. Orderly(g)'
        <3>1. Live(op[g].host)' /\ Claimed(g)' /\ ReadIsFresh(g)'
            BY <1>1, <1>3, <1>8 DEF Live, Claimed, ReadIsFresh
        <3>2. HeirsAreFree(g)'
            BY <1>1, <1>4, <1>7, <1>8, <2>2 DEF HeirsAreFree
        <3> QED
            BY <3>1, <3>2 DEF Orderly
    <2>4. NoOrphanRows => OwnersAreKnown(g)'
        <3> SUFFICES ASSUME NoOrphanRows
                     PROVE  /\ \A k \in Host \ {h} : domain[k] \in want =>
                                  k \in losers /\ r[k] # Nobody
                            /\ \A d \in want : extra[d] \in {h, Nobody} \cup losers
            BY <1>1, <1>8, <2>2 DEF OwnersAreKnown
        <3>1. \A k \in Host \ {h} : domain[k] \in want => k \in losers /\ r[k] # Nobody
            BY <1>5, <1>6, <1>7
        <3>2. \A d \in want : extra[d] \in {h, Nobody} \cup losers
            BY <1>6
        <3> QED
            BY <3>1, <3>2
    <2>5. (NoOrphanRows => NoOrphanRows') /\ (OneSitePerDomain => OneSitePerDomain')
        BY <1>1 DEF NoOrphanRows, OneSitePerDomain, Serves, Live
    <2>6. (\A k \in Client : Orderly(k)') /\ (NoOrphanRows => \A k \in Client : OwnersAreKnown(k)')
        BY <2>1, <2>3, <2>4, OneGoesOn
    <2> QED
        BY <1>1, <2>1, <2>5, <2>6 DEF InOrder
<1>13. ASSUME NEW k \in Host \ apart' PROVE Undisturbed(k)'
    <2>1. Undisturbed(k) /\ (Live(k)' <=> Live(k)) /\ Live(h)'
        BY <1>1, <1>9, <1>13 DEF IInv, Live
    <2> QED
        BY <1>1, <1>3, <1>8, <2>1, OthersUndisturbed
<1> QED
    BY <1>10, <1>11, <1>12, <1>13 DEF IInv

(* What the steps of a claim share. *)
LEMMA ClaimingFacts ==
    ASSUME IInv, NEW g \in Client, NEW k \in Host, op[g].pc = "claiming", k \in op[g].owners,
           Note(g, k)
    PROVE  \E h \in Host :
             /\ h = op[g].host /\ h # k /\ op[g].primary \in Domain /\ domain[h] # Unborn
             /\ Want(g) \subseteq Domain /\ op[g].owners \subseteq Host
             /\ "claiming" \notin Rewriting /\ "claiming" \notin Updating
             /\ raced' \in BOOLEAN /\ apart' \subseteq Host /\ apart \subseteq apart'
             /\ ~raced' => /\ ~raced /\ \A c \in Client \ {g} : op[c].pc = "idle"
                           /\ Live(h) /\ HeirsAreFree(g)
                           /\ ~orphaned => NoOrphanRows /\ OwnersAreKnown(g)
             /\ k \notin apart' => \A c \in Client \ {g} : op[c].pc = "idle" \/ op[c].host # k
<1>1. TypeOK /\ UnbornIsFresh /\ InOrder
    BY DEF IInv
<1>2. PICK h \in Host : h = op[g].host
    BY <1>1 DEF UnbornIsFresh
<1>3. op[g].primary \in Domain /\ domain[h] # Unborn /\ h # k
    BY <1>1, <1>2 DEF UnbornIsFresh
<1>4. Want(g) \subseteq Domain /\ op[g].owners \subseteq Host
    BY <1>1, <1>3 DEF Want, TypeOK, Op
<1>5. "claiming" \notin Rewriting /\ "claiming" \notin Updating
    BY DEF Rewriting, Updating
<1>6. /\ raced' \in BOOLEAN /\ apart' \subseteq Host /\ apart \subseteq apart'
      /\ ~raced' => ~raced /\ \A c \in Client \ {g} : op[c].pc = "idle"
      /\ k \notin apart' => \A c \in Client \ {g} : op[c].pc = "idle" \/ op[c].host # k
    BY <1>1, NoteSays
<1>7. ~raced => /\ Live(h) /\ HeirsAreFree(g)
                /\ ~orphaned => NoOrphanRows /\ OwnersAreKnown(g)
    BY <1>1, <1>2 DEF InOrder, Orderly
<1> QED
    BY <1>2, <1>3, <1>4, <1>5, <1>6, <1>7

LEMMA DropHostKeeps ==
    ASSUME IInv, NEW g \in Client, NEW k \in Host, NEW cascade \in BOOLEAN,
           UpdateDropHost(g, k, cascade)
    PROVE  IInv'
<1>1. /\ TypeOK /\ UnbornIsFresh /\ InOrder
      /\ op[g].pc = "claiming" /\ k \in op[g].owners
      /\ UNCHANGED <<asked, unchecked, shortened>>
      /\ RemoveHost(k, cascade) /\ Note(g, k)
    BY DEF UpdateDropHost, IInv
<1>2. PICK h \in Host :
             /\ h = op[g].host /\ h # k /\ op[g].primary \in Domain /\ domain[h] # Unborn
             /\ Want(g) \subseteq Domain /\ op[g].owners \subseteq Host
             /\ "claiming" \notin Rewriting /\ "claiming" \notin Updating
             /\ raced' \in BOOLEAN /\ apart' \subseteq Host /\ apart \subseteq apart'
             /\ ~raced' => /\ ~raced /\ \A c \in Client \ {g} : op[c].pc = "idle"
                           /\ Live(h) /\ HeirsAreFree(g)
                           /\ ~orphaned => NoOrphanRows /\ OwnersAreKnown(g)
             /\ k \notin apart' => \A c \in Client \ {g} : op[c].pc = "idle" \/ op[c].host # k
    BY <1>1, ClaimingFacts
<1>3. /\ op' \in [Client -> Op]
      /\ op'[g].pc = "claiming" /\ op'[g].host = h
      /\ op'[g].primary = op[g].primary /\ op'[g].extras = op[g].extras
      /\ op'[g].owners = op[g].owners \ {k} /\ op'[g].heir = op[g].heir
      /\ \A c \in Client \ {g} : op'[c] = op[c]
    <2>1. op' = [op EXCEPT ![g] = [@ EXCEPT !.owners = op[g].owners \ {k}]] /\ op \in [Client -> Op]
        BY <1>1 DEF UpdateDropHost, TypeOK
    <2> QED
        BY <1>1, <1>2, <2>1, OpDrops
<1>4. /\ domain' \in [Host -> Domain \cup {Unborn, Gone}]
      /\ extra' \in [Domain -> Host \cup {Nobody}]
      /\ ups' \in [Host -> SUBSET Writer] /\ route' \in [Host -> Writer \cup {Nobody}]
      /\ orphaned' \in BOOLEAN
      /\ ~Live(k)' /\ (domain'[k] = Unborn <=> domain[k] = Unborn)
      /\ \A i \in Host \ {k} :
            domain'[i] = domain[i] /\ ups'[i] = ups[i] /\ route'[i] = route[i]
      /\ route'[k] \in {route[k], Nobody}
      /\ \A d \in Domain : extra'[d] = extra[d] \/ (extra[d] = k /\ extra'[d] = Nobody)
      /\ ~orphaned' => ~orphaned /\ (NoOrphanRows => \A d \in Domain : extra'[d] # k)
    BY <1>1, RemoveSays
<1>5. Nobody \notin Host /\ Nobody \notin Domain /\ Gone \notin Domain /\ Unborn \notin Domain
    BY HostRowsAssumption
<1>6. TypeOK'
    BY <1>1, <1>2, <1>3, <1>4 DEF TypeOK
<1>7. UnbornIsFresh'
    <2>1. \A i \in Host : Extras(i) = {} => Extras(i)' = {}
        BY <1>4, <1>5 DEF Extras
    <2>2. \A i \in Host : /\ domain'[i] = Unborn <=> domain[i] = Unborn
                          /\ route[i] = Nobody => route'[i] = Nobody
        BY <1>4
    <2> QED
        BY <1>1, <1>2, <1>3, <2>1, <2>2 DEF UnbornIsFresh
<1>8. InOrder'
    <2> SUFFICES ASSUME ~raced' PROVE InOrder'
        BY DEF InOrder
    <2>1. Want(g)' = Want(g)
        BY <1>3 DEF Want
    <2>2. Orderly(g)'
        <3>1. Live(op[g].host)' /\ Claimed(g)' /\ ReadIsFresh(g)'
            BY <1>2, <1>3, <1>4 DEF Live, Claimed, ReadIsFresh
        <3>2. HeirsAreFree(g)'
            BY <1>1, <1>2, <1>3, <1>4, <2>1 DEF HeirsAreFree
        <3> QED
            BY <3>1, <3>2 DEF Orderly
    <2>3. ~orphaned' => OwnersAreKnown(g)'
        <3> SUFFICES ASSUME ~orphaned'
                     PROVE  /\ \A i \in Host \ {h} : domain'[i] \in Want(g) =>
                                  i \in op[g].owners \ {k} /\ op[g].heir[i] # Nobody
                            /\ \A d \in Want(g) :
                                  extra'[d] \in {h, Nobody} \cup (op[g].owners \ {k})
            BY <1>3, <2>1 DEF OwnersAreKnown
        <3>1. NoOrphanRows /\ OwnersAreKnown(g) /\ \A d \in Domain : extra'[d] # k
            BY <1>2, <1>4
        <3>2. domain'[k] \notin Want(g)
            BY <1>2, <1>4 DEF Live
        <3> QED
            BY <1>1, <1>2, <1>4, <3>1, <3>2 DEF OwnersAreKnown
    <2>4. ~orphaned' => NoOrphanRows'
        BY <1>2, <1>4 DEF NoOrphanRows, Live, TypeOK
    <2>5. ~unchecked' => OneSitePerDomain'
        <3>1. \A i \in Host, d \in Domain : Serves(i, d)' => Serves(i, d)
            BY <1>4, <1>5 DEF Serves, Live
        <3> QED
            BY <1>1, <1>2, <3>1 DEF InOrder, OneSitePerDomain
    <2>6. /\ \A c \in Client : Orderly(c)'
          /\ ~orphaned' => \A c \in Client : OwnersAreKnown(c)'
        BY <1>2, <1>3, <2>2, <2>3, OneGoesOn
    <2> QED
        BY <2>4, <2>5, <2>6 DEF InOrder
<1>9. ASSUME NEW i \in Host \ apart' PROVE Undisturbed(i)'
    <2>1. Undisturbed(i)
        BY <1>2, <1>9 DEF IInv
    <2>2. CASE i = k
        BY <1>2, <1>3, <1>4, <1>9, <2>2, NoneUnderWay
    <2>3. CASE i # k
        <3>1. (Live(i)' <=> Live(i)) /\ (i = h => Live(i)')
            BY <1>1, <1>2, <1>4, <2>1, <2>3 DEF Live, Undisturbed, UpstreamsOfUpdate
        <3>2. op[g].pc \notin Rewriting /\ shortened \subseteq shortened'
            BY <1>1, <1>2
        <3>3. \/ op'[g].pc = "idle" \/ op'[g].host # i
              \/ op'[g].pc \in {"claiming", "claimed"} /\ Live(i)'
            BY <1>3, <3>1
        <3> QED
            BY <1>3, <1>4, <2>1, <2>3, <3>1, <3>2, <3>3, OthersUndisturbed
    <2> QED
        BY <2>2, <2>3
<1> QED
    BY <1>6, <1>7, <1>8, <1>9 DEF IInv

LEMMA PromoteKeeps ==
    ASSUME IInv, NEW g \in Client, NEW k \in Host, UpdatePromote(g, k)
    PROVE  IInv'
<1> DEFINE e == op[g].heir[k]
<1>1. /\ TypeOK /\ UnbornIsFresh /\ InOrder
      /\ op[g].pc = "claiming" /\ k \in op[g].owners /\ e \in Domain
      /\ domain' = [domain EXCEPT ![k] = IF Live(k) THEN e ELSE @]
      /\ extra' = [extra EXCEPT ![e] = IF @ = k THEN Nobody ELSE @]
      /\ UNCHANGED <<asked, ups, route, unchecked, orphaned, shortened>>
      /\ Note(g, k)
    BY DEF UpdatePromote, IInv
<1>2. PICK h \in Host :
             /\ h = op[g].host /\ h # k /\ op[g].primary \in Domain /\ domain[h] # Unborn
             /\ Want(g) \subseteq Domain /\ op[g].owners \subseteq Host
             /\ "claiming" \notin Rewriting /\ "claiming" \notin Updating
             /\ raced' \in BOOLEAN /\ apart' \subseteq Host /\ apart \subseteq apart'
             /\ ~raced' => /\ ~raced /\ \A c \in Client \ {g} : op[c].pc = "idle"
                           /\ Live(h) /\ HeirsAreFree(g)
                           /\ ~orphaned => NoOrphanRows /\ OwnersAreKnown(g)
             /\ k \notin apart' => \A c \in Client \ {g} : op[c].pc = "idle" \/ op[c].host # k
    BY <1>1, ClaimingFacts
<1>3. /\ op' \in [Client -> Op]
      /\ op'[g].pc = "claiming" /\ op'[g].host = h
      /\ op'[g].primary = op[g].primary /\ op'[g].extras = op[g].extras
      /\ op'[g].owners = op[g].owners
      /\ \A i \in Host : op'[g].heir[i] = IF i = k THEN Nobody ELSE op[g].heir[i]
      /\ \A c \in Client \ {g} : op'[c] = op[c]
    <2>1. op' = [op EXCEPT ![g] = [@ EXCEPT !.heir = [op[g].heir EXCEPT ![k] = Nobody]]]
          /\ op \in [Client -> Op]
        BY <1>1 DEF UpdatePromote, TypeOK
    <2> QED
        BY <1>1, <1>2, <2>1, OpPromotes
<1>4. Nobody \notin Host /\ Nobody \notin Domain /\ Gone \notin Domain /\ Unborn \notin Domain
    BY HostRowsAssumption
<1>5. HeirsAreFree(g) => extra[e] = k /\ e \notin Want(g)
    BY <1>1 DEF HeirsAreFree
<1> HIDE DEF e
<1>6. /\ \A i \in Host : domain'[i] = IF i = k /\ Live(k) THEN e ELSE domain[i]
      /\ \A d \in Domain : extra'[d] = IF d = e /\ extra[d] = k THEN Nobody ELSE extra[d]
    BY <1>1 DEF TypeOK
<1>7. /\ domain' \in [Host -> Domain \cup {Unborn, Gone}]
      /\ extra' \in [Domain -> Host \cup {Nobody}]
    BY <1>1 DEF TypeOK
<1>8. \A i \in Host : (Live(i)' <=> Live(i)) /\ (domain'[i] = Unborn <=> domain[i] = Unborn)
    BY <1>1, <1>4, <1>6 DEF Live
<1>9. TypeOK'
    BY <1>1, <1>2, <1>3, <1>7 DEF TypeOK
<1>10. UnbornIsFresh'
    <2>1. \A i \in Host : Extras(i) = {} => Extras(i)' = {}
        BY <1>4, <1>6 DEF Extras
    <2> QED
        BY <1>1, <1>2, <1>3, <1>8, <2>1 DEF UnbornIsFresh
<1>11. InOrder'
    <2> SUFFICES ASSUME ~raced' PROVE InOrder'
        BY DEF InOrder
    <2>1. Want(g)' = Want(g)
        BY <1>3 DEF Want
    <2>2. extra[e] = k /\ e \notin Want(g) /\ ~raced
        BY <1>2, <1>5
    <2>3. Orderly(g)'
        <3>1. Live(op[g].host)' /\ Claimed(g)' /\ ReadIsFresh(g)'
            BY <1>2, <1>3, <1>8 DEF Claimed, ReadIsFresh, Live
        <3>2. HeirsAreFree(g)'
            BY <1>1, <1>2, <1>3, <1>4, <1>6, <2>1, <2>2 DEF HeirsAreFree
        <3> QED
            BY <3>1, <3>2 DEF Orderly
    <2>4. ~orphaned' => OwnersAreKnown(g)'
        <3> SUFFICES ASSUME ~orphaned'
                     PROVE  /\ \A i \in Host \ {h} : domain'[i] \in Want(g) =>
                                  i \in op[g].owners /\ op'[g].heir[i] # Nobody
                            /\ \A d \in Want(g) : extra'[d] \in {h, Nobody} \cup op[g].owners
            BY <1>3, <2>1 DEF OwnersAreKnown
        <3>1. OwnersAreKnown(g)
            BY <1>1, <1>2
        <3>2. domain'[k] \notin Want(g)
            BY <1>2, <1>6, <2>2 DEF Live
        <3>3. \A i \in Host \ {h} : domain'[i] \in Want(g) =>
                 i \in op[g].owners /\ op'[g].heir[i] # Nobody
            BY <1>1, <1>2, <1>3, <1>6, <3>1, <3>2 DEF OwnersAreKnown
        <3>4. \A d \in Want(g) : extra'[d] \in {h, Nobody} \cup op[g].owners
            BY <1>1, <1>2, <1>6, <3>1 DEF OwnersAreKnown
        <3> QED
            BY <3>3, <3>4
    <2>5. ~orphaned' => NoOrphanRows'
        BY <1>1, <1>2, <1>6, <1>8 DEF NoOrphanRows, TypeOK, Live
    <2>6. ~unchecked' => OneSitePerDomain'
        <3>1. \A i \in Host, d \in Domain : Serves(i, d)' => Serves(i, d)
            BY <1>4, <1>6, <1>8, <2>2 DEF Serves
        <3> QED
            BY <1>1, <2>2, <3>1 DEF InOrder, OneSitePerDomain
    <2>7. /\ \A c \in Client : Orderly(c)'
          /\ ~orphaned' => \A c \in Client : OwnersAreKnown(c)'
        BY <1>2, <1>3, <2>3, <2>4, OneGoesOn
    <2> QED
        BY <2>5, <2>6, <2>7 DEF InOrder
<1>12. ASSUME NEW i \in Host \ apart' PROVE Undisturbed(i)'
    <2>1. Undisturbed(i) /\ (i = h => Live(i)')
        BY <1>1, <1>2, <1>8, <1>12 DEF IInv, Undisturbed, UpstreamsOfUpdate
    <2>2. op[g].pc \notin Rewriting /\ shortened \subseteq shortened'
          /\ ups'[i] = ups[i] /\ route'[i] = route[i]
        BY <1>1, <1>2
    <2>3. \/ op'[g].pc = "idle" \/ op'[g].host # i
          \/ op'[g].pc \in {"claiming", "claimed"} /\ Live(i)'
        BY <1>3, <2>1
    <2> QED
        BY <1>3, <1>8, <2>1, <2>2, <2>3, OthersUndisturbed
<1> QED
    BY <1>9, <1>10, <1>11, <1>12 DEF IInv

(* A promotion that an error cuts short, and with it the update. *)
LEMMA PromoteFailsKeeps ==
    ASSUME IInv, NEW g \in Client, NEW k \in Host, UpdatePromoteFails(g, k)
    PROVE  IInv'
<1> DEFINE e == op[g].heir[k]
<1>1. /\ TypeOK /\ UnbornIsFresh /\ InOrder
      /\ op[g].pc = "claiming" /\ k \in op[g].owners /\ e \in Domain
      /\ extra' = [extra EXCEPT ![e] = IF @ = k THEN Nobody ELSE @]
      /\ domain' = domain /\ UNCHANGED <<asked, ups, route, unchecked, orphaned, shortened>>
      /\ Note(g, k) /\ Done(g)
    BY DEF UpdatePromoteFails, IInv
<1> HIDE DEF e
<1>2. /\ op' \in [Client -> Op] /\ op'[g].pc = "idle"
      /\ \A c \in Client \ {g} : op'[c] = op[c]
    BY <1>1, OpEnds DEF TypeOK
<1>3. /\ raced' \in BOOLEAN /\ apart' \subseteq Host /\ apart \subseteq apart'
      /\ ~raced' => ~raced /\ \A c \in Client \ {g} : op[c].pc = "idle"
    BY <1>1, NoteSays
<1>4. Nobody \notin Host /\ "claiming" \notin Rewriting
    BY HostRowsAssumption DEF Rewriting
<1>5. /\ extra' \in [Domain -> Host \cup {Nobody}]
      /\ \A d \in Domain : extra'[d] \in {extra[d], Nobody}
    BY <1>1 DEF TypeOK
<1>6. TypeOK'
    BY <1>1, <1>2, <1>3, <1>5 DEF TypeOK
<1>7. UnbornIsFresh'
    <2>1. \A i \in Host : Extras(i) = {} => Extras(i)' = {}
        BY <1>4, <1>5 DEF Extras
    <2> QED
        BY <1>1, <1>2, <2>1 DEF UnbornIsFresh
<1>8. InOrder'
    <2> SUFFICES ASSUME ~raced' PROVE InOrder'
        BY DEF InOrder
    <2>1. \A c \in Client : Orderly(c)' /\ OwnersAreKnown(c)'
        BY <1>2, <1>3, NobodyLeft
    <2>2. ~orphaned' => NoOrphanRows'
        BY <1>1, <1>3, <1>5 DEF InOrder, NoOrphanRows, Live
    <2>3. ~unchecked' => OneSitePerDomain'
        <3>1. \A i \in Host, d \in Domain : Serves(i, d)' => Serves(i, d)
            BY <1>1, <1>4, <1>5 DEF Serves, Live
        <3> QED
            BY <1>1, <1>3, <3>1 DEF InOrder, OneSitePerDomain
    <2> QED
        BY <2>1, <2>2, <2>3 DEF InOrder
<1>9. ASSUME NEW i \in Host \ apart' PROVE Undisturbed(i)'
    <2>1. Undisturbed(i)
        BY <1>3, <1>9 DEF IInv
    <2> QED
        BY <1>1, <1>2, <1>4, <2>1, OthersUndisturbed DEF Live
<1> QED
    BY <1>6, <1>7, <1>8, <1>9 DEF IInv

LEMMA DropExtrasKeeps ==
    ASSUME IInv, NEW g \in Client, NEW k \in Host, UpdateDropExtras(g, k)
    PROVE  IInv'
<1>1. /\ TypeOK /\ UnbornIsFresh /\ InOrder
      /\ op[g].pc = "claiming" /\ k \in op[g].owners /\ op[g].heir[k] = Nobody
      /\ extra' = [d \in Domain |-> IF d \in Want(g) /\ extra[d] = k THEN Nobody ELSE extra[d]]
      /\ domain' = domain /\ UNCHANGED <<asked, ups, route, unchecked, orphaned, shortened>>
      /\ Note(g, k)
    BY DEF UpdateDropExtras, IInv
<1>2. PICK h \in Host :
             /\ h = op[g].host /\ h # k /\ op[g].primary \in Domain /\ domain[h] # Unborn
             /\ Want(g) \subseteq Domain /\ op[g].owners \subseteq Host
             /\ "claiming" \notin Rewriting /\ "claiming" \notin Updating
             /\ raced' \in BOOLEAN /\ apart' \subseteq Host /\ apart \subseteq apart'
             /\ ~raced' => /\ ~raced /\ \A c \in Client \ {g} : op[c].pc = "idle"
                           /\ Live(h) /\ HeirsAreFree(g)
                           /\ ~orphaned => NoOrphanRows /\ OwnersAreKnown(g)
             /\ k \notin apart' => \A c \in Client \ {g} : op[c].pc = "idle" \/ op[c].host # k
    BY <1>1, ClaimingFacts
<1>3. /\ op' \in [Client -> Op]
      /\ op'[g].pc = "claiming" /\ op'[g].host = h
      /\ op'[g].primary = op[g].primary /\ op'[g].extras = op[g].extras
      /\ op'[g].owners = op[g].owners \ {k} /\ op'[g].heir = op[g].heir
      /\ \A c \in Client \ {g} : op'[c] = op[c]
    <2>1. op' = [op EXCEPT ![g] = [@ EXCEPT !.owners = op[g].owners \ {k}]] /\ op \in [Client -> Op]
        BY <1>1 DEF UpdateDropExtras, TypeOK
    <2> QED
        BY <1>1, <1>2, <2>1, OpDrops
<1>4. Nobody \notin Host /\ Nobody \notin Domain
    BY HostRowsAssumption
<1>5. /\ extra' \in [Domain -> Host \cup {Nobody}]
      /\ \A d \in Domain : extra'[d] = IF d \in Want(g) /\ extra[d] = k THEN Nobody ELSE extra[d]
    BY <1>1 DEF TypeOK
<1>6. TypeOK'
    BY <1>1, <1>2, <1>3, <1>5 DEF TypeOK
<1>7. UnbornIsFresh'
    <2>1. \A i \in Host : Extras(i) = {} => Extras(i)' = {}
        BY <1>4, <1>5 DEF Extras
    <2> QED
        BY <1>1, <1>2, <1>3, <2>1 DEF UnbornIsFresh
<1>8. InOrder'
    <2> SUFFICES ASSUME ~raced' PROVE InOrder'
        BY DEF InOrder
    <2>1. Want(g)' = Want(g)
        BY <1>3 DEF Want
    <2>2. Orderly(g)'
        <3>1. Live(op[g].host)' /\ Claimed(g)' /\ ReadIsFresh(g)'
            BY <1>1, <1>2, <1>3 DEF Live, Claimed, ReadIsFresh
        <3>2. HeirsAreFree(g)'
            BY <1>1, <1>2, <1>3, <1>5, <2>1 DEF HeirsAreFree
        <3> QED
            BY <3>1, <3>2 DEF Orderly
    <2>3. ~orphaned' => OwnersAreKnown(g)'
        <3> SUFFICES ASSUME ~orphaned'
                     PROVE  /\ \A i \in Host \ {h} : domain[i] \in Want(g) =>
                                  i \in op[g].owners \ {k} /\ op[g].heir[i] # Nobody
                            /\ \A d \in Want(g) :
                                  extra'[d] \in {h, Nobody} \cup (op[g].owners \ {k})
            BY <1>1, <1>3, <2>1 DEF OwnersAreKnown
        <3>1. OwnersAreKnown(g)
            BY <1>1, <1>2
        <3>2. \A i \in Host \ {h} : domain[i] \in Want(g) =>
                 i \in op[g].owners \ {k} /\ op[g].heir[i] # Nobody
            BY <1>1, <1>2, <3>1 DEF OwnersAreKnown
        <3>3. \A d \in Want(g) : extra'[d] \in {h, Nobody} \cup (op[g].owners \ {k})
            BY <1>1, <1>2, <1>4, <1>5, <3>1 DEF OwnersAreKnown
        <3> QED
            BY <3>2, <3>3
    <2>4. ~orphaned' => NoOrphanRows'
        BY <1>1, <1>2, <1>5 DEF NoOrphanRows, Live
    <2>5. ~unchecked' => OneSitePerDomain'
        <3>1. \A i \in Host, d \in Domain : Serves(i, d)' => Serves(i, d)
            BY <1>1, <1>4, <1>5 DEF Serves, Live
        <3> QED
            BY <1>1, <1>2, <3>1 DEF InOrder, OneSitePerDomain
    <2>6. /\ \A c \in Client : Orderly(c)'
          /\ ~orphaned' => \A c \in Client : OwnersAreKnown(c)'
        BY <1>2, <1>3, <2>2, <2>3, OneGoesOn
    <2> QED
        BY <2>4, <2>5, <2>6 DEF InOrder
<1>9. ASSUME NEW i \in Host \ apart' PROVE Undisturbed(i)'
    <2>1. Undisturbed(i) /\ (Live(i)' <=> Live(i)) /\ (i = h => Live(i)')
        BY <1>1, <1>2, <1>9 DEF IInv, Undisturbed, UpstreamsOfUpdate, Live
    <2>2. op[g].pc \notin Rewriting /\ shortened \subseteq shortened'
          /\ ups'[i] = ups[i] /\ route'[i] = route[i]
        BY <1>1, <1>2
    <2>3. \/ op'[g].pc = "idle" \/ op'[g].host # i
          \/ op'[g].pc \in {"claiming", "claimed"} /\ Live(i)'
        BY <1>3, <2>1
    <2> QED
        BY <1>3, <2>1, <2>2, <2>3, OthersUndisturbed
<1> QED
    BY <1>6, <1>7, <1>8, <1>9 DEF IInv

LEMMA CheckKeeps ==
    ASSUME IInv, NEW g \in Client, UpdateCheck(g)
    PROVE  IInv'
<1>1. /\ TypeOK /\ UnbornIsFresh /\ InOrder
      /\ op[g].pc = "claiming" /\ NoConflict(op[g].host, Want(g), domain, extra)
      /\ domain' = domain /\ extra' = extra
      /\ UNCHANGED <<asked, ups, route, apart, raced, unchecked, orphaned, shortened>>
    BY DEF UpdateCheck, tables, IInv
<1>2. /\ op' \in [Client -> Op]
      /\ op'[g].pc = "claimed" /\ op'[g].host = op[g].host /\ op'[g].primary = op[g].primary
      /\ op'[g].extras = op[g].extras /\ op'[g].owners = op[g].owners
      /\ \A k \in Client \ {g} : op'[k] = op[k]
    <2>1. op' = [op EXCEPT ![g] = [@ EXCEPT !.pc = "claimed", !.heir = NoHeir]]
          /\ op \in [Client -> Op]
        BY <1>1 DEF UpdateCheck, TypeOK
    <2> QED
        BY <2>1, OpChecks
<1>3. /\ "claimed" \in Updating /\ "claimed" \notin {"saved", "named"}
      /\ "claiming" \notin Rewriting
    BY DEF Updating, Rewriting
<1>4. TypeOK'
    BY <1>1, <1>2 DEF TypeOK
<1>5. UnbornIsFresh'
    BY <1>1, <1>2 DEF UnbornIsFresh, Extras
<1>6. InOrder'
    <2> SUFFICES ASSUME ~raced' PROVE InOrder'
        BY DEF InOrder
    <2>1. Orderly(g)' /\ OwnersAreKnown(g)'
        <3>1. Live(op[g].host)'
            BY <1>1, <1>2 DEF InOrder, Orderly, Live
        <3>2. NoConflict(op[g].host, Want(g), domain, extra)'
            <4>1. Want(g)' = Want(g)
                BY <1>2 DEF Want
            <4> QED
                BY <1>1, <1>2, <4>1 DEF NoConflict
        <3> QED
            BY <1>2, <1>3, <3>1, <3>2, UpdateGoesOn
    <2>2. /\ \A k \in Client : Orderly(k)'
          /\ (\A k \in Client : OwnersAreKnown(k)) => \A k \in Client : OwnersAreKnown(k)'
        BY <1>1, <1>2, <2>1, OthersGoOn DEF InOrder
    <2>3. (NoOrphanRows => NoOrphanRows') /\ (OneSitePerDomain => OneSitePerDomain')
        BY <1>1 DEF NoOrphanRows, OneSitePerDomain, Serves, Live
    <2> QED
        BY <1>1, <2>2, <2>3 DEF InOrder
<1>7. ASSUME NEW k \in Host \ apart' PROVE Undisturbed(k)'
    <2>1. Undisturbed(k) /\ (Live(k)' <=> Live(k)) /\ (op[g].host = k => Live(k)')
        BY <1>1, <1>7 DEF IInv, Undisturbed, UpstreamsOfUpdate, Live
    <2> QED
        BY <1>1, <1>2, <1>3, <2>1, OthersUndisturbed
<1> QED
    BY <1>4, <1>5, <1>6, <1>7 DEF IInv

LEMMA WipeKeeps ==
    ASSUME IInv, NEW g \in Client, NEW failed \in SUBSET {"read", "domains", "upstreams"},
           UpdateWipe(g, failed)
    PROVE  IInv'
<1> DEFINE h == op[g].host
           u == IF "read" \in failed THEN {} ELSE ups[h]
<1>1. /\ TypeOK /\ UnbornIsFresh /\ InOrder
      /\ op[g].pc = "claimed" /\ domain' = domain /\ shortened' = shortened
      /\ UNCHANGED <<asked, route, unchecked, orphaned>>
      /\ extra' = [d \in Domain |-> IF extra[d] = h /\ "domains" \notin failed
                                   THEN Nobody ELSE extra[d]]
      /\ ups' = [ups EXCEPT ![h] = IF "upstreams" \in failed THEN @ ELSE {}]
      /\ raced' = (raced \/ Others(g) # {})
      /\ apart' = IF failed # {} \/ Sharing(g, h) THEN apart \cup {h} ELSE apart
    BY DEF UpdateWipe, IInv
<1>2. h \in Host /\ op[g].primary \in Domain /\ domain[h] # Unborn /\ h \notin op[g].owners
    BY <1>1 DEF UnbornIsFresh
<1>3. /\ "wiped" \in Rewriting /\ "wiped" \in Updating /\ "claimed" \in Updating
      /\ "claimed" \notin Rewriting /\ Nobody \notin Host /\ "wiped" \notin {"saved", "named"}
    BY HostRowsAssumption DEF Rewriting, Updating
<1>4. u \in SUBSET Writer /\ ups[h] \in SUBSET Writer
    BY <1>1, <1>2 DEF TypeOK
<1>5. /\ op' \in [Client -> Op]
      /\ op'[g].pc = "wiped" /\ op'[g].host = h /\ op'[g].primary = op[g].primary
      /\ op'[g].extras = op[g].extras /\ op'[g].ups = u /\ op'[g].owners = op[g].owners
      /\ \A k \in Client \ {g} : op'[k] = op[k]
    <2>1. op' = [op EXCEPT ![g] = [@ EXCEPT !.pc = "wiped", !.ups = u]]
        BY DEF UpdateWipe
    <2>2. op \in [Client -> Op]
        BY <1>1 DEF TypeOK
    <2> HIDE DEF u
    <2> QED
        BY <1>4, <2>1, <2>2, OpWipes
<1>6. /\ raced' \in BOOLEAN /\ apart' \subseteq Host /\ apart \subseteq apart'
      /\ ~raced' => ~raced /\ \A k \in Client \ {g} : op[k].pc = "idle"
      /\ h \notin apart' =>
            failed = {} /\ \A k \in Client \ {g} : op[k].pc = "idle" \/ op[k].host # h
    BY <1>1, <1>2 DEF Others, Sharing, TypeOK
<1>7. /\ \A d \in Domain : extra'[d] = extra[d] \/ extra'[d] = Nobody
      /\ \A k \in Host \ {h} : ups'[k] = ups[k]
      /\ failed = {} => ups'[h] = {} /\ u = ups[h]
    BY <1>1, <1>2 DEF TypeOK
<1>8. extra' \in [Domain -> Host \cup {Nobody}] /\ ups' \in [Host -> SUBSET Writer]
    BY <1>1, <1>4 DEF TypeOK
<1> HIDE DEF h, u
<1>9. TypeOK'
    BY <1>1, <1>5, <1>6, <1>8 DEF TypeOK
<1>10. UnbornIsFresh'
    <2>1. \A k \in Host : Extras(k) = {} => Extras(k)' = {}
        BY <1>3, <1>7 DEF Extras
    <2> QED
        BY <1>1, <1>2, <1>5, <2>1 DEF UnbornIsFresh
<1>11. InOrder'
    <2> SUFFICES ASSUME ~raced' PROVE InOrder'
        BY DEF InOrder
    <2>1. Live(h) /\ NoConflict(h, Want(g), domain, extra)
        BY <1>1, <1>3, <1>6 DEF InOrder, Orderly, Claimed, h
    <2>2. NoConflict(op[g].host, Want(g), domain, extra)'
        <3>1. Want(g)' = Want(g) /\ op'[g].host = h
            BY <1>5 DEF Want
        <3>2. Want(g) \subseteq Domain
            BY <1>1, <1>2 DEF Want, TypeOK, Op
        <3> QED
            BY <1>1, <1>7, <2>1, <3>1, <3>2 DEF NoConflict
    <2>3. Live(op[g].host)'
        BY <1>1, <1>5, <2>1 DEF Live
    <2>4. \A c \in Client : Orderly(c)' /\ OwnersAreKnown(c)'
        <3>1. Orderly(g)' /\ OwnersAreKnown(g)'
            BY <1>3, <1>5, <2>2, <2>3, UpdateGoesOn
        <3> QED
            BY <1>5, <1>6, <3>1, OneGoesOn
    <2>5. ~orphaned' => NoOrphanRows'
        BY <1>1, <1>6, <1>7 DEF InOrder, NoOrphanRows, Live
    <2>6. ~unchecked' => OneSitePerDomain'
        <3>1. \A k \in Host, d \in Domain : Serves(k, d)' => Serves(k, d)
            BY <1>1, <1>3, <1>7 DEF Serves, Live
        <3> QED
            BY <1>1, <1>6, <3>1 DEF InOrder, OneSitePerDomain
    <2> QED
        BY <2>4, <2>5, <2>6 DEF InOrder
<1>12. ASSUME NEW k \in Host \ apart' PROVE Undisturbed(k)'
    <2>1. Undisturbed(k)
        BY <1>6, <1>12 DEF IInv
    <2>2. CASE k = h
        <3>1. Live(k) /\ Live(k)'
            BY <1>1, <2>1, <2>2 DEF Undisturbed, UpstreamsOfUpdate, Live, h
        <3>2. PICK w \in Writer : ups[k] = {w} /\ Routed(k, w)
            BY <1>1, <1>3, <1>6, <1>12, <2>1, <2>2, <3>1, WholeNow DEF Whole
        <3>3. op'[g].ups = {w} /\ Routed(k, w)' /\ ups'[k] = {}
            BY <1>1, <1>5, <1>6, <1>7, <1>12, <2>2, <3>2 DEF Routed
        <3> QED
            BY <1>3, <1>5, <1>6, <1>12, <2>2, <3>1, <3>3, OneRewrites
    <2>3. CASE k # h
        BY <1>1, <1>3, <1>5, <1>7, <2>1, <2>3, OthersUndisturbed DEF Live
    <2> QED
        BY <2>2, <2>3
<1> QED
    BY <1>9, <1>10, <1>11, <1>12 DEF IInv

(* An update that fails, or a toggle. *)
LEMMA EndKeeps ==
    ASSUME IInv, NEW g \in Client, UpdateRefused(g) \/ ToggleFails(g)
    PROVE  IInv'
<1>1. /\ TypeOK /\ UnbornIsFresh /\ InOrder
      /\ op[g].pc # "idle"
      /\ domain' = domain /\ extra' = extra
      /\ UNCHANGED <<asked, ups, route, raced, unchecked, orphaned, shortened>>
      /\ Done(g)
      /\ \/ apart' = apart \cup {op[g].host}
         \/ apart' = apart /\ op[g].pc = "toggle"
    BY DEF UpdateRefused, GiveUp, ToggleFails, tables, IInv
<1>2. /\ op' \in [Client -> Op] /\ op'[g].pc = "idle"
      /\ \A k \in Client \ {g} : op'[k] = op[k]
    BY <1>1, OpEnds DEF TypeOK
<1>3. op[g].host \in Host
    BY <1>1 DEF UnbornIsFresh
<1>4. TypeOK'
    BY <1>1, <1>2, <1>3 DEF TypeOK
<1>5. UnbornIsFresh'
    BY <1>1, <1>2 DEF UnbornIsFresh, Extras
<1>6. InOrder'
    <2>1. Orderly(g)' /\ OwnersAreKnown(g)'
        BY <1>2, IdleIsOrderly
    <2>2. /\ (\A k \in Client : Orderly(k)) => \A k \in Client : Orderly(k)'
          /\ (\A k \in Client : OwnersAreKnown(k)) => \A k \in Client : OwnersAreKnown(k)'
        BY <1>1, <1>2, <2>1, OthersGoOn
    <2>3. (NoOrphanRows => NoOrphanRows') /\ (OneSitePerDomain => OneSitePerDomain')
        BY <1>1 DEF NoOrphanRows, OneSitePerDomain, Serves, Live
    <2> QED
        BY <1>1, <2>2, <2>3 DEF InOrder
<1>7. ASSUME NEW k \in Host \ apart' PROVE Undisturbed(k)'
    <2>1. Undisturbed(k)
        BY <1>1, <1>7 DEF IInv
    <2>2. op[g].pc \notin Rewriting \/ op[g].host # k
        BY <1>1, <1>7 DEF Rewriting
    <2> QED
        BY <1>1, <1>2, <2>1, <2>2, OthersUndisturbed DEF Live
<1> QED
    BY <1>4, <1>5, <1>6, <1>7 DEF IInv

(* Of the steps of an update after the deletion of the rows: what they     *)
(* share.                                                                  *)
LEMMA RewriteFacts ==
    ASSUME IInv, NEW g \in Client, op[g].pc \in Rewriting, Note(g, op[g].host)
    PROVE  \E h \in Host :
             /\ h = op[g].host /\ op[g].primary \in Domain /\ domain[h] # Unborn
             /\ Want(g) \subseteq Domain /\ op[g].primary \in Want(g)
             /\ op[g].extras \subseteq Want(g) /\ h \notin op[g].owners
             /\ raced' \in BOOLEAN /\ apart' \subseteq Host /\ apart \subseteq apart'
             /\ ~raced' => /\ ~raced /\ \A k \in Client \ {g} : op[k].pc = "idle"
                           /\ Live(h) /\ NoConflict(h, Want(g), domain, extra)
             /\ h \notin apart' =>
                   /\ \A k \in Client \ {g} : op[k].pc = "idle" \/ op[k].host # h
                   /\ Live(h) /\ ups[h] = {}
                   /\ \E w \in Writer : op[g].ups = {w} /\ Routed(h, w)
<1>1. TypeOK /\ UnbornIsFresh /\ InOrder /\ op[g].pc \in Updating /\ op[g].pc # "idle"
    BY DEF IInv, Rewriting, Updating
<1>2. PICK h \in Host : h = op[g].host
    BY <1>1 DEF UnbornIsFresh
<1>3. op[g].primary \in Domain /\ domain[h] # Unborn /\ h \notin op[g].owners
    BY <1>1, <1>2 DEF UnbornIsFresh
<1>4. Want(g) \subseteq Domain /\ op[g].primary \in Want(g) /\ op[g].extras \subseteq Want(g)
    BY <1>1, <1>3 DEF Want, TypeOK, Op
<1>5. /\ raced' \in BOOLEAN /\ apart' \subseteq Host /\ apart \subseteq apart'
      /\ ~raced' => ~raced /\ \A k \in Client \ {g} : op[k].pc = "idle"
      /\ h \notin apart' => \A k \in Client \ {g} : op[k].pc = "idle" \/ op[k].host # h
    BY <1>1, <1>2, NoteSays
<1>6. ~raced => Live(h) /\ NoConflict(h, Want(g), domain, extra)
    BY <1>1, <1>2 DEF InOrder, Orderly, Claimed
<1>7. h \notin apart => /\ Live(h) /\ ups[h] = {}
                        /\ \E w \in Writer : op[g].ups = {w} /\ Routed(h, w)
    BY <1>1, <1>2 DEF IInv, Undisturbed, UpstreamsOfUpdate
<1> QED
    BY <1>2, <1>3, <1>4, <1>5, <1>6, <1>7

LEMMA SaveKeeps ==
    ASSUME IInv, NEW g \in Client, UpdateSave(g)
    PROVE  IInv'
<1>1. /\ TypeOK /\ UnbornIsFresh /\ InOrder
      /\ op[g].pc = "wiped" /\ op[g].pc \in Rewriting
      /\ UNCHANGED <<asked, extra, ups, route, unchecked, orphaned, shortened>>
      /\ Note(g, op[g].host)
    BY DEF UpdateSave, IInv, Rewriting
<1>2. PICK h \in Host :
             /\ h = op[g].host /\ op[g].primary \in Domain /\ domain[h] # Unborn
             /\ Want(g) \subseteq Domain /\ op[g].primary \in Want(g)
             /\ op[g].extras \subseteq Want(g) /\ h \notin op[g].owners
             /\ raced' \in BOOLEAN /\ apart' \subseteq Host /\ apart \subseteq apart'
             /\ ~raced' => /\ ~raced /\ \A k \in Client \ {g} : op[k].pc = "idle"
                           /\ Live(h) /\ NoConflict(h, Want(g), domain, extra)
             /\ h \notin apart' =>
                   /\ \A k \in Client \ {g} : op[k].pc = "idle" \/ op[k].host # h
                   /\ Live(h) /\ ups[h] = {}
                   /\ \E w \in Writer : op[g].ups = {w} /\ Routed(h, w)
    BY <1>1, RewriteFacts
<1>3. /\ "saved" \in Rewriting /\ "saved" \in Updating /\ Nobody \notin Host /\ Unborn \notin Domain
      /\ "wiped" \in Updating
    BY HostRowsAssumption DEF Rewriting, Updating
<1>4. /\ op' \in [Client -> Op]
      /\ op'[g].pc = "saved" /\ op'[g].host = h /\ op'[g].primary = op[g].primary
      /\ op'[g].extras = op[g].extras /\ op'[g].ups = op[g].ups
      /\ op'[g].owners = op[g].owners
      /\ \A k \in Client \ {g} : op'[k] = op[k]
    <2>1. op' = [op EXCEPT ![g] = [@ EXCEPT !.pc = "saved"]]
        BY DEF UpdateSave
    <2>2. op \in [Client -> Op] /\ "saved" \in {"saved", "named"}
        BY <1>1 DEF TypeOK
    <2> QED
        BY <1>2, <2>1, <2>2, OpMoves
<1>5. /\ \A k \in Host : domain'[k] = IF k = h THEN op[g].primary ELSE domain[k]
      /\ \A k \in Host \ {h} : domain[k] # op[g].primary
      /\ domain' \in [Host -> Domain \cup {Unborn, Gone}]
    BY <1>1, <1>2 DEF UpdateSave, TypeOK
<1>6. TypeOK'
    BY <1>1, <1>2, <1>4, <1>5 DEF TypeOK
<1>7. UnbornIsFresh'
    <2>1. \A k \in Host : domain'[k] = Unborn <=> domain[k] = Unborn
        BY <1>2, <1>3, <1>5
    <2>2. \A k \in Host : Extras(k)' = Extras(k)
        BY <1>1 DEF Extras
    <2> QED
        BY <1>1, <1>2, <1>4, <2>1, <2>2 DEF UnbornIsFresh
<1>8. InOrder'
    <2> SUFFICES ASSUME ~raced' PROVE InOrder'
        BY DEF InOrder
    <2>1. NoConflict(op[g].host, Want(g), domain, extra)'
        <3>1. Want(g)' = Want(g)
            BY <1>4 DEF Want
        <3> QED
            BY <1>1, <1>2, <1>4, <1>5, <3>1 DEF NoConflict
    <2>2. Live(op[g].host)' /\ domain'[op'[g].host] = op'[g].primary
        BY <1>2, <1>4, <1>5 DEF Live
    <2>5. op'[g].pc \in Updating
        BY <1>3, <1>4
    <2>6. \A k \in Client \ {g} : op[k].pc = "idle" /\ op'[k] = op[k]
        BY <1>2, <1>4
    <2>7. \A k \in Client : Orderly(k)' /\ OwnersAreKnown(k)'
        <3>1. Orderly(g)' /\ OwnersAreKnown(g)'
            BY <2>1, <2>2, <2>5, UpdateGoesOn
        <3> QED
            BY <2>6, <3>1, OneGoesOn
    <2>8. ~orphaned' => NoOrphanRows'
        BY <1>1, <1>2, <1>5 DEF InOrder, NoOrphanRows, Live, TypeOK
    <2>9. ~unchecked' => OneSitePerDomain'
        <3> SUFFICES ASSUME ~unchecked', NEW d \in Domain, NEW j \in Host, NEW k \in Host,
                            Serves(j, d)', Serves(k, d)'
                     PROVE  j = k
            BY DEF OneSitePerDomain
        <3>1. ASSUME NEW i \in Host, i # h, Serves(i, d)'
              PROVE  Serves(i, d) /\ d # op[g].primary
            <4>1. domain'[i] = domain[i] /\ domain[i] # op[g].primary
                BY <1>5, <3>1
            <4>2. extra[op[g].primary] \in {h, Nobody}
                BY <1>2 DEF NoConflict
            <4>3. Serves(i, d)
                BY <1>1, <3>1, <4>1 DEF Serves, Live
            <4> QED
                BY <1>3, <3>1, <4>1, <4>2, <4>3 DEF Serves
        <3>2. Serves(h, d)' => d = op[g].primary \/ Serves(h, d)
            BY <1>1, <1>2, <1>5 DEF Serves
        <3>3. OneSitePerDomain
            BY <1>1, <1>2 DEF InOrder
        <3> QED
            BY <3>1, <3>2, <3>3 DEF OneSitePerDomain
    <2> QED
        BY <2>7, <2>8, <2>9 DEF InOrder
<1>9. ASSUME NEW k \in Host \ apart' PROVE Undisturbed(k)'
    <2>1. Undisturbed(k)
        BY <1>2, <1>9 DEF IInv
    <2>2. CASE k = h
        <3>1. Live(k)' /\ ups'[k] = {} /\ op'[g].host = k /\ op'[g].pc \in Rewriting
            BY <1>1, <1>2, <1>3, <1>4, <1>5, <1>9, <2>2 DEF Live
        <3>2. \E w \in Writer : op'[g].ups = {w} /\ Routed(k, w)'
            BY <1>1, <1>2, <1>4, <1>9, <2>2 DEF Routed
        <3>3. \A c \in Client \ {g} : op'[c].pc = "idle" \/ op'[c].host # k
            BY <1>2, <1>4, <1>9, <2>2
        <3> QED
            BY <3>1, <3>2, <3>3, OneRewrites
    <2>3. CASE k # h
        BY <1>1, <1>2, <1>4, <1>5, <2>1, <2>3, OthersUndisturbed DEF Live
    <2> QED
        BY <2>2, <2>3
<1> QED
    BY <1>6, <1>7, <1>8, <1>9 DEF IInv
LEMMA DomainsKeep ==
    ASSUME IInv, NEW g \in Client, UpdateDomains(g)
    PROVE  IInv'
<1>1. /\ TypeOK /\ UnbornIsFresh /\ InOrder
      /\ op[g].pc = "saved" /\ op[g].pc \in Rewriting
      /\ UNCHANGED <<asked, domain, ups, route, unchecked, orphaned, shortened>>
      /\ Note(g, op[g].host)
    BY DEF UpdateDomains, IInv, Rewriting
<1>2. PICK h \in Host :
             /\ h = op[g].host /\ op[g].primary \in Domain /\ domain[h] # Unborn
             /\ Want(g) \subseteq Domain /\ op[g].primary \in Want(g)
             /\ op[g].extras \subseteq Want(g) /\ h \notin op[g].owners
             /\ raced' \in BOOLEAN /\ apart' \subseteq Host /\ apart \subseteq apart'
             /\ ~raced' => /\ ~raced /\ \A k \in Client \ {g} : op[k].pc = "idle"
                           /\ Live(h) /\ NoConflict(h, Want(g), domain, extra)
             /\ h \notin apart' =>
                   /\ \A k \in Client \ {g} : op[k].pc = "idle" \/ op[k].host # h
                   /\ Live(h) /\ ups[h] = {}
                   /\ \E w \in Writer : op[g].ups = {w} /\ Routed(h, w)
    BY <1>1, RewriteFacts
<1>3. /\ "named" \in Rewriting /\ "named" \in Updating /\ Nobody \notin Host
      /\ "saved" \in Updating /\ "named" \notin {"wiped", "saved"}
    BY HostRowsAssumption DEF Rewriting, Updating
<1>4. /\ op' \in [Client -> Op]
      /\ op'[g].pc = "named" /\ op'[g].host = h /\ op'[g].primary = op[g].primary
      /\ op'[g].extras = op[g].extras /\ op'[g].ups = op[g].ups
      /\ op'[g].owners = op[g].owners
      /\ \A k \in Client \ {g} : op'[k] = op[k]
    <2>1. op' = [op EXCEPT ![g] = [@ EXCEPT !.pc = "named"]]
        BY DEF UpdateDomains
    <2>2. op \in [Client -> Op] /\ "named" \in {"saved", "named"}
        BY <1>1 DEF TypeOK
    <2> QED
        BY <1>2, <2>1, <2>2, OpMoves
<1>5. /\ \A d \in Domain : extra'[d] = IF d \in op[g].extras THEN h ELSE extra[d]
      /\ extra' \in [Domain -> Host \cup {Nobody}]
    BY <1>1, <1>2 DEF UpdateDomains, TypeOK
<1>6. TypeOK'
    BY <1>1, <1>2, <1>4, <1>5 DEF TypeOK
<1>7. UnbornIsFresh'
    <2>1. \A k \in Host : k # h /\ Extras(k) = {} => Extras(k)' = {}
        BY <1>5 DEF Extras
    <2> QED
        BY <1>1, <1>2, <1>4, <2>1 DEF UnbornIsFresh
<1>8. InOrder'
    <2> SUFFICES ASSUME ~raced' PROVE InOrder'
        BY DEF InOrder
    <2>1. NoConflict(op[g].host, Want(g), domain, extra)'
        <3>1. Want(g)' = Want(g)
            BY <1>4 DEF Want
        <3> QED
            BY <1>1, <1>2, <1>4, <1>5, <3>1 DEF NoConflict
    <2>2. domain[h] = op[g].primary
        BY <1>1, <1>2, <1>3 DEF InOrder, Orderly, Claimed
    <2>3. Live(op[g].host)' /\ domain'[op'[g].host] = op'[g].primary
        BY <1>1, <1>2, <1>4, <2>2 DEF Live
    <2>4. op'[g].pc \in Updating /\ op'[g].pc \notin {"wiped", "saved"}
        BY <1>3, <1>4
    <2>5. \A k \in Client \ {g} : op[k].pc = "idle" /\ op'[k] = op[k]
        BY <1>2, <1>4
    <2>6. \A k \in Client : Orderly(k)' /\ OwnersAreKnown(k)'
        <3>1. Orderly(g)' /\ OwnersAreKnown(g)'
            BY <2>1, <2>3, <2>4, UpdateGoesOn
        <3> QED
            BY <2>5, <3>1, OneGoesOn
    <2>7. ~orphaned' => NoOrphanRows'
        BY <1>1, <1>2, <1>5 DEF InOrder, NoOrphanRows, Live
    <2>8. ~unchecked' => OneSitePerDomain'
        <3> SUFFICES ASSUME ~unchecked', NEW d \in Domain, NEW j \in Host, NEW k \in Host,
                            Serves(j, d)', Serves(k, d)'
                     PROVE  j = k
            BY DEF OneSitePerDomain
        <3>1. ASSUME NEW i \in Host, i # h, Serves(i, d)'
              PROVE  Serves(i, d) /\ d \notin Want(g)
            <4>1. domain[i] \notin Want(g) /\ (d \in Want(g) => extra[d] \in {h, Nobody})
                BY <1>2, <3>1 DEF NoConflict
            <4>2. Serves(i, d)
                BY <1>1, <1>5, <3>1 DEF Serves, Live
            <4> QED
                BY <1>3, <3>1, <4>1, <4>2 DEF Serves
        <3>2. Serves(h, d)' => d \in Want(g) \/ Serves(h, d)
            BY <1>1, <1>2, <1>5 DEF Serves, Live
        <3>3. OneSitePerDomain
            BY <1>1, <1>2 DEF InOrder
        <3> QED
            BY <3>1, <3>2, <3>3 DEF OneSitePerDomain
    <2> QED
        BY <2>6, <2>7, <2>8 DEF InOrder
<1>9. ASSUME NEW k \in Host \ apart' PROVE Undisturbed(k)'
    <2>1. Undisturbed(k)
        BY <1>2, <1>9 DEF IInv
    <2>2. CASE k = h
        <3>1. Live(k)' /\ ups'[k] = {} /\ op'[g].host = k /\ op'[g].pc \in Rewriting
            BY <1>1, <1>2, <1>3, <1>4, <1>9, <2>2 DEF Live
        <3>2. \E w \in Writer : op'[g].ups = {w} /\ Routed(k, w)'
            BY <1>1, <1>2, <1>4, <1>9, <2>2 DEF Routed
        <3>3. \A c \in Client \ {g} : op'[c].pc = "idle" \/ op'[c].host # k
            BY <1>2, <1>4, <1>9, <2>2
        <3> QED
            BY <3>1, <3>2, <3>3, OneRewrites
    <2>3. CASE k # h
        BY <1>1, <1>2, <1>4, <2>1, <2>3, OthersUndisturbed DEF Live
    <2> QED
        BY <2>2, <2>3
<1> QED
    BY <1>6, <1>7, <1>8, <1>9 DEF IInv

LEMMA UpstreamsKeep ==
    ASSUME IInv, NEW g \in Client, UpdateUpstreams(g)
    PROVE  IInv'
<1>1. /\ TypeOK /\ UnbornIsFresh /\ InOrder
      /\ op[g].pc \in Rewriting
      /\ UNCHANGED <<asked, domain, extra, unchecked, orphaned>>
      /\ Note(g, op[g].host) /\ Done(g)
    BY DEF UpdateUpstreams, IInv, Rewriting
<1>2. PICK h \in Host :
             /\ h = op[g].host /\ op[g].primary \in Domain /\ domain[h] # Unborn
             /\ Want(g) \subseteq Domain /\ op[g].primary \in Want(g)
             /\ op[g].extras \subseteq Want(g) /\ h \notin op[g].owners
             /\ raced' \in BOOLEAN /\ apart' \subseteq Host /\ apart \subseteq apart'
             /\ ~raced' => /\ ~raced /\ \A k \in Client \ {g} : op[k].pc = "idle"
                           /\ Live(h) /\ NoConflict(h, Want(g), domain, extra)
             /\ h \notin apart' =>
                   /\ \A k \in Client \ {g} : op[k].pc = "idle" \/ op[k].host # h
                   /\ Live(h) /\ ups[h] = {}
                   /\ \E w \in Writer : op[g].ups = {w} /\ Routed(h, w)
    BY <1>1, RewriteFacts
<1>3. g \in Writer /\ Nobody \notin Writer
    BY HostRowsAssumption DEF Writer
<1>4. /\ op' \in [Client -> Op] /\ op'[g].pc = "idle"
      /\ \A k \in Client \ {g} : op'[k] = op[k]
    BY <1>1, OpEnds DEF TypeOK
<1>5. /\ ups' = [ups EXCEPT ![h] = @ \cup {g}]
      /\ \/ /\ route' = [route EXCEPT ![h] = IF @ \in op[g].ups THEN g ELSE @]
            /\ shortened' = shortened
         \/ route' = route /\ shortened' = shortened \cup {h}
    BY <1>2 DEF UpdateUpstreams
<1>6. /\ \A k \in Host : ups'[k] = IF k = h THEN ups[k] \cup {g} ELSE ups[k]
      /\ \A k \in Host \ {h} : route'[k] = route[k]
      /\ \/ h \in shortened'
         \/ route'[h] = route[h] /\ route[h] \notin op[g].ups
         \/ route'[h] = g
      /\ route[h] = Nobody /\ Nobody \notin op[g].ups => route'[h] = Nobody
      /\ shortened \subseteq shortened' /\ shortened' \subseteq Host
      /\ ups' \in [Host -> SUBSET Writer] /\ route' \in [Host -> Writer \cup {Nobody}]
    <2>1. /\ ups \in [Host -> SUBSET Writer] /\ route \in [Host -> Writer \cup {Nobody}]
          /\ shortened \subseteq Host
        BY <1>1 DEF TypeOK
    <2>2. /\ \A k \in Host : ups'[k] = IF k = h THEN ups[k] \cup {g} ELSE ups[k]
          /\ ups' \in [Host -> SUBSET Writer]
        BY <1>3, <1>5, <2>1
    <2>3. CASE route' = route /\ shortened' = shortened \cup {h}
        BY <2>1, <2>2, <2>3
    <2>4. CASE /\ route' = [route EXCEPT ![h] = IF @ \in op[g].ups THEN g ELSE @]
               /\ shortened' = shortened
        <3>1. route' \in [Host -> Writer \cup {Nobody}]
            BY <1>3, <2>1, <2>4
        <3>2. \A k \in Host : route'[k] = IF k = h /\ route[k] \in op[g].ups THEN g ELSE route[k]
            BY <2>1, <2>4
        <3> QED
            BY <2>1, <2>2, <2>4, <3>1, <3>2
    <2> QED
        BY <1>5, <2>3, <2>4
<1>7. TypeOK'
    BY <1>1, <1>2, <1>4, <1>6 DEF TypeOK
<1>8. UnbornIsFresh'
    BY <1>1, <1>2, <1>4, <1>6 DEF UnbornIsFresh, Extras
<1>9. InOrder'
    <2>1. ~raced' => \A k \in Client : Orderly(k)' /\ OwnersAreKnown(k)'
        BY <1>2, <1>4, NobodyLeft
    <2>2. NoOrphanRows' = NoOrphanRows /\ OneSitePerDomain' = OneSitePerDomain
        BY <1>1 DEF NoOrphanRows, OneSitePerDomain, Serves, Live
    <2> QED
        BY <1>1, <1>2, <2>1, <2>2 DEF InOrder
<1>10. ASSUME NEW k \in Host \ apart' PROVE Undisturbed(k)'
    <2>1. Undisturbed(k)
        BY <1>2, <1>10 DEF IInv
    <2>2. CASE k = h
        <3>1. PICK w \in Writer : op[g].ups = {w} /\ Routed(h, w)
            BY <1>2, <1>10, <2>2
        <3>2. ups'[k] = {g} /\ Routed(k, g)'
            BY <1>2, <1>3, <1>6, <1>10, <2>2, <3>1 DEF Routed
        <3>3. Whole(k)'
            BY <1>3, <3>2 DEF Whole
        <3>4. \A c \in Client \ {g} : op'[c].pc = "idle" \/ op'[c].host # k
            BY <1>2, <1>4, <1>10, <2>2
        <3> QED
            BY <1>4, <3>3, <3>4, NoneUnderWay
    <2>3. CASE k # h
        BY <1>1, <1>2, <1>4, <1>6, <2>1, <2>3, OthersUndisturbed DEF Live
    <2> QED
        BY <2>2, <2>3
<1> QED
    BY <1>7, <1>8, <1>9, <1>10 DEF IInv
LEMMA ToggleReadKeeps ==
    ASSUME IInv, NEW g \in Client, NEW h \in Host, ToggleRead(g, h)
    PROVE  IInv'
<1>1. /\ TypeOK /\ UnbornIsFresh /\ InOrder
      /\ op[g].pc = "idle" /\ Live(h) /\ asked' = asked + 1
      /\ domain' = domain /\ extra' = extra
      /\ UNCHANGED <<ups, route, apart, raced, unchecked, orphaned, shortened>>
    BY DEF ToggleRead, Ask, tables, IInv
<1>2. /\ op' \in [Client -> Op]
      /\ op'[g].pc = "toggle" /\ op'[g].host = h /\ op'[g].primary = domain[h]
      /\ op'[g].extras = Extras(h) /\ op'[g].ups = ups[h] /\ op'[g].owners = {}
      /\ \A k \in Client \ {g} : op'[k] = op[k]
    <2> DEFINE y == [pc |-> "toggle", host |-> h, primary |-> domain[h], extras |-> Extras(h),
                     ups |-> ups[h], owners |-> {}, heir |-> NoHeir]
    <2>1. op \in [Client -> Op] /\ op' = [op EXCEPT ![g] = y]
        BY <1>1 DEF ToggleRead, TypeOK
    <2>2. domain[h] \in Domain /\ Extras(h) \in SUBSET Domain /\ ups[h] \in SUBSET Writer
        BY <1>1 DEF TypeOK, Live, Extras
    <2>3. y \in Op
        BY <2>2 DEF Op, NoHeir
    <2>4. /\ y.pc = "toggle" /\ y.host = h /\ y.primary = domain[h] /\ y.extras = Extras(h)
          /\ y.ups = ups[h] /\ y.owners = {}
        OBVIOUS
    <2> HIDE DEF y
    <2> QED
        BY <2>1, <2>3, <2>4, OpBecomes
<1>3. /\ "toggle" \notin Updating /\ "toggle" \notin Rewriting
      /\ "idle" \notin Rewriting /\ Unborn \notin Domain
    BY HostRowsAssumption DEF Updating, Rewriting
<1>4. TypeOK'
    BY <1>1, <1>2 DEF TypeOK
<1>5. UnbornIsFresh'
    BY <1>1, <1>2, <1>3 DEF UnbornIsFresh, Extras, Live
<1>6. InOrder'
    <2>1. Orderly(g)' /\ OwnersAreKnown(g)'
        BY <1>1, <1>2, <1>3 DEF Orderly, Claimed, ReadIsFresh, HeirsAreFree, OwnersAreKnown,
                               Extras, Live
    <2>2. /\ (\A k \in Client : Orderly(k)) => \A k \in Client : Orderly(k)'
          /\ (\A k \in Client : OwnersAreKnown(k)) => \A k \in Client : OwnersAreKnown(k)'
        BY <1>1, <1>2, <2>1, OthersGoOn
    <2>3. (NoOrphanRows => NoOrphanRows') /\ (OneSitePerDomain => OneSitePerDomain')
        BY <1>1 DEF NoOrphanRows, OneSitePerDomain, Serves, Live
    <2> QED
        BY <1>1, <2>2, <2>3 DEF InOrder
<1>7. ASSUME NEW k \in Host \ apart' PROVE Undisturbed(k)'
    <2>1. Undisturbed(k)
        BY <1>1, <1>7 DEF IInv
    <2>2. \A w \in Writer : Routed(k, w) => Routed(k, w)'
        BY <1>1 DEF Routed
    <2>3. UpstreamsOfUpdate(k)'
        <3> SUFFICES ASSUME NEW c \in Client, op'[c].host = k
                     PROVE  /\ op'[c].pc # "idle" => Live(k)'
                            /\ op'[c].pc \in Rewriting =>
                                  /\ ups'[k] = {}
                                  /\ \E w \in Writer : op'[c].ups = {w} /\ Routed(k, w)'
                            /\ op'[c].pc = "toggle" => op'[c].ups = ups'[k]
            BY DEF UpstreamsOfUpdate
        <3>1. CASE c = g
            BY <1>1, <1>2, <1>3, <3>1 DEF Live
        <3>2. CASE c # g
            BY <1>1, <1>2, <2>1, <2>2, <3>2 DEF Undisturbed, UpstreamsOfUpdate, Live
        <3> QED
            BY <3>1, <3>2
    <2>4. WholeUnlessRewritten(k)'
        <3> SUFFICES ASSUME Live(k)', \A c \in Client : op'[c].host = k => op'[c].pc \notin Rewriting
                     PROVE  Whole(k)'
            BY DEF WholeUnlessRewritten
        <3>1. \A c \in Client : op[c].host = k => op[c].pc \notin Rewriting
            BY <1>1, <1>2, <1>3
        <3> QED
            BY <1>1, <2>1, <2>2, <3>1 DEF Undisturbed, WholeUnlessRewritten, Live, Whole
    <2> QED
        BY <2>3, <2>4 DEF Undisturbed
<1> QED
    BY <1>4, <1>5, <1>6, <1>7 DEF IInv

LEMMA ToggleSaveKeeps ==
    ASSUME IInv, NEW g \in Client, ToggleSave(g)
    PROVE  IInv'
<1>1. /\ TypeOK /\ UnbornIsFresh /\ InOrder
      /\ op[g].pc = "toggle"
      /\ UNCHANGED <<asked, route, unchecked, orphaned, shortened>>
      /\ Note(g, op[g].host) /\ Done(g)
    BY DEF ToggleSave, IInv
<1>2. PICK h \in Host : h = op[g].host
    BY <1>1 DEF UnbornIsFresh
<1>3. /\ op[g].primary \in Domain /\ domain[h] # Unborn
      /\ op[g].extras \subseteq Domain /\ op[g].ups \subseteq Writer
    BY <1>1, <1>2 DEF UnbornIsFresh, TypeOK, Op
<1>4. /\ op' \in [Client -> Op] /\ op'[g].pc = "idle"
      /\ \A k \in Client \ {g} : op'[k] = op[k]
    BY <1>1, OpEnds DEF TypeOK
<1>5. /\ \A k \in Host : domain'[k] = IF k = h THEN op[g].primary ELSE domain[k]
      /\ \A d \in Domain : extra'[d] = IF d \in op[g].extras THEN h ELSE extra[d]
      /\ \A k \in Host : ups'[k] = IF k = h THEN ups[k] \cup op[g].ups ELSE ups[k]
      /\ domain' \in [Host -> Domain \cup {Unborn, Gone}]
      /\ extra' \in [Domain -> Host \cup {Nobody}]
      /\ ups' \in [Host -> SUBSET Writer]
    BY <1>1, <1>2, <1>3 DEF ToggleSave, TypeOK
<1>6. /\ raced' \in BOOLEAN /\ apart' \subseteq Host /\ apart \subseteq apart'
      /\ ~raced' => ~raced /\ \A k \in Client \ {g} : op[k].pc = "idle"
      /\ h \notin apart' => \A k \in Client \ {g} : op[k].pc = "idle" \/ op[k].host # h
    BY <1>1, <1>2, NoteSays
<1>7. Unborn \notin Domain /\ "toggle" \notin Rewriting
    BY HostRowsAssumption DEF Rewriting
<1>8. TypeOK'
    BY <1>1, <1>4, <1>5, <1>6 DEF TypeOK
<1>9. UnbornIsFresh'
    <2>1. \A k \in Host : k # h /\ Extras(k) = {} => Extras(k)' = {}
        BY <1>5 DEF Extras
    <2>2. \A k \in Host : domain'[k] = Unborn <=> domain[k] = Unborn
        BY <1>3, <1>5, <1>7
    <2> QED
        BY <1>1, <1>3, <1>4, <2>1, <2>2 DEF UnbornIsFresh
<1>10. InOrder'
    <2> SUFFICES ASSUME ~raced' PROVE InOrder'
        BY DEF InOrder
    <2>1. \A k \in Client : Orderly(k)' /\ OwnersAreKnown(k)'
        BY <1>4, <1>6, NobodyLeft
    <2>2. op[g].primary = domain[h] /\ op[g].extras = Extras(h)
        BY <1>1, <1>2, <1>6 DEF InOrder, Orderly, ReadIsFresh
    <2>3. (\A k \in Host : domain'[k] = domain[k]) /\ (\A d \in Domain : extra'[d] = extra[d])
        BY <1>5, <2>2 DEF Extras
    <2>4. NoOrphanRows => NoOrphanRows'
        BY <1>1, <2>3 DEF NoOrphanRows, Live, TypeOK
    <2>5. OneSitePerDomain => OneSitePerDomain'
        BY <2>3 DEF OneSitePerDomain, Serves, Live
    <2> QED
        BY <1>1, <1>6, <2>1, <2>4, <2>5 DEF InOrder
<1>11. ASSUME NEW k \in Host \ apart' PROVE Undisturbed(k)'
    <2>1. Undisturbed(k)
        BY <1>6, <1>11 DEF IInv
    <2>2. CASE k = h
        <3>1. Live(k) /\ op[g].ups = ups[k]
            BY <1>1, <1>2, <2>1, <2>2 DEF Undisturbed, UpstreamsOfUpdate
        <3>2. Whole(k)
            BY <1>1, <1>6, <1>7, <1>11, <2>1, <2>2, <3>1, WholeNow
        <3>3. Whole(k)'
            BY <1>1, <1>5, <2>2, <3>1, <3>2 DEF Whole, Routed
        <3> QED
            BY <1>4, <1>6, <1>11, <2>2, <3>3, NoneUnderWay
    <2>3. CASE k # h
        BY <1>1, <1>2, <1>4, <1>5, <2>1, <2>3, OthersUndisturbed DEF Live
    <2> QED
        BY <2>2, <2>3
<1> QED
    BY <1>8, <1>9, <1>10, <1>11 DEF IInv

LEMMA DeleteKeeps ==
    ASSUME IInv, NEW g \in Client, NEW h \in Host, NEW cascade \in BOOLEAN, Delete(g, h, cascade)
    PROVE  IInv'
<1>1. /\ TypeOK /\ UnbornIsFresh /\ InOrder
      /\ op[g].pc = "idle" /\ asked' = asked + 1
      /\ op' = op /\ unchecked' = unchecked /\ shortened' = shortened
      /\ RemoveHost(h, cascade) /\ Note(g, h)
    BY DEF Delete, Ask, IInv
<1>2. Nobody \notin Host /\ "idle" \notin Rewriting
    BY HostRowsAssumption DEF Rewriting
<1>3. /\ domain' \in [Host -> Domain \cup {Unborn, Gone}]
      /\ extra' \in [Domain -> Host \cup {Nobody}]
      /\ ups' \in [Host -> SUBSET Writer] /\ route' \in [Host -> Writer \cup {Nobody}]
      /\ orphaned' \in BOOLEAN
      /\ ~Live(h)' /\ (domain'[h] = Unborn <=> domain[h] = Unborn)
      /\ \A k \in Host \ {h} :
            domain'[k] = domain[k] /\ ups'[k] = ups[k] /\ route'[k] = route[k]
      /\ route'[h] \in {route[h], Nobody}
      /\ \A d \in Domain : extra'[d] = extra[d] \/ (extra[d] = h /\ extra'[d] = Nobody)
      /\ ~orphaned' => ~orphaned /\ (NoOrphanRows => \A d \in Domain : extra'[d] # h)
    BY <1>1, RemoveSays
<1>4. /\ raced' \in BOOLEAN /\ apart' \subseteq Host /\ apart \subseteq apart'
      /\ ~raced' => ~raced /\ \A k \in Client \ {g} : op[k].pc = "idle"
      /\ h \notin apart' => \A k \in Client \ {g} : op[k].pc = "idle" \/ op[k].host # h
    BY <1>1, NoteSays
<1>5. TypeOK'
    BY <1>1, <1>3, <1>4 DEF TypeOK
<1>6. UnbornIsFresh'
    <2>1. \A k \in Host : Extras(k) = {} => Extras(k)' = {}
        BY <1>2, <1>3 DEF Extras
    <2>2. \A k \in Host : /\ domain'[k] = Unborn <=> domain[k] = Unborn
                          /\ route[k] = Nobody => route'[k] = Nobody
        BY <1>3
    <2> QED
        BY <1>1, <2>1, <2>2 DEF UnbornIsFresh
<1>7. InOrder'
    <2> SUFFICES ASSUME ~raced' PROVE InOrder'
        BY DEF InOrder
    <2>1. \A k \in Client : Orderly(k)' /\ OwnersAreKnown(k)'
        BY <1>1, <1>4, NobodyLeft
    <2>2. ~orphaned' => NoOrphanRows'
        BY <1>1, <1>3, <1>4 DEF InOrder, NoOrphanRows, Live, TypeOK
    <2>3. ~unchecked' => OneSitePerDomain'
        <3>1. \A k \in Host, d \in Domain : Serves(k, d)' => Serves(k, d)
            BY <1>2, <1>3 DEF Serves, Live
        <3> QED
            BY <1>1, <1>4, <3>1 DEF InOrder, OneSitePerDomain
    <2> QED
        BY <2>1, <2>2, <2>3 DEF InOrder
<1>8. ASSUME NEW k \in Host \ apart' PROVE Undisturbed(k)'
    <2>1. Undisturbed(k)
        BY <1>4, <1>8 DEF IInv
    <2>2. CASE k = h
        BY <1>1, <1>3, <1>4, <1>8, <2>2, NoneUnderWay
    <2>3. CASE k # h
        BY <1>1, <1>2, <1>3, <2>1, <2>3, OthersUndisturbed DEF Live
    <2> QED
        BY <2>2, <2>3
<1> QED
    BY <1>5, <1>6, <1>7, <1>8 DEF IInv

LEMMA CloneKeeps ==
    ASSUME IInv, NEW g \in Client, NEW h \in Host, NEW src \in Host, NEW d \in Domain,
           CloneHost(g, h, src, d)
    PROVE  IInv'
<1>1. /\ TypeOK /\ UnbornIsFresh /\ InOrder
      /\ op[g].pc = "idle" /\ Live(src) /\ domain[h] = Unborn /\ asked' = asked + 1
      /\ \A k \in Host : domain[k] # d
      /\ UNCHANGED <<extra, op, orphaned, shortened>>
      /\ unchecked' = (unchecked \/ extra[d] # Nobody)
      /\ raced' = (raced \/ \E k \in Client \ {g} : op[k].pc # "idle")
      /\ apart' = IF src \in apart \/ \E c \in Client \ {g} : op[c].pc # "idle" /\ op[c].host = src
                  THEN apart \cup {h} ELSE apart
    BY DEF CloneHost, Ask, Others, Sharing, IInv
<1>2. /\ Unborn \notin Domain /\ Nobody \notin Host /\ "idle" \notin Rewriting
      /\ g \in Writer /\ h # src
    BY <1>1, HostRowsAssumption DEF Rewriting, Writer, Live
<1>3. /\ \A k \in Host : domain'[k] = IF k = h THEN d ELSE domain[k]
      /\ \A k \in Host \ {h} : ups'[k] = ups[k] /\ route'[k] = route[k]
      /\ ups'[h] = IF ups[src] = {} THEN {} ELSE {g}
      /\ route'[h] = IF route[src] \in ups[src] THEN g ELSE Nobody
      /\ domain' \in [Host -> Domain \cup {Unborn, Gone}]
      /\ ups' \in [Host -> SUBSET Writer] /\ route' \in [Host -> Writer \cup {Nobody}]
    BY <1>1, <1>2 DEF CloneHost, TypeOK
<1>4. TypeOK'
    BY <1>1, <1>3 DEF TypeOK
<1>5. Extras(h) = {} /\ \A c \in Client : op[c].pc # "idle" => op[c].host # h
    BY <1>1 DEF UnbornIsFresh
<1>6. UnbornIsFresh'
    BY <1>1, <1>2, <1>3, <1>5 DEF UnbornIsFresh, Extras
<1>7. InOrder'
    <2> SUFFICES ASSUME ~raced' PROVE InOrder'
        BY DEF InOrder
    <2>1. ~raced /\ \A k \in Client \ {g} : op[k].pc = "idle"
        BY <1>1
    <2>2. \A k \in Client : Orderly(k)' /\ OwnersAreKnown(k)'
        BY <1>1, <2>1, NobodyLeft
    <2>3. ~orphaned' => NoOrphanRows'
        <3> SUFFICES ASSUME ~orphaned', NEW e \in Domain, extra'[e] # Nobody
                     PROVE  Live(extra[e])'
            BY DEF NoOrphanRows
        <3>1. extra[e] \in Host /\ Live(extra[e]) /\ extra' = extra
            BY <1>1, <2>1 DEF InOrder, NoOrphanRows, TypeOK
        <3>2. \A k \in Host : Live(k) => domain'[k] \in Domain
            BY <1>3 DEF Live
        <3> QED
            BY <3>1, <3>2 DEF Live
    <2>4. ~unchecked' => OneSitePerDomain'
        <3> SUFFICES ASSUME ~unchecked', NEW e \in Domain, NEW j \in Host, NEW k \in Host,
                            Serves(j, e)', Serves(k, e)'
                     PROVE  j = k
            BY DEF OneSitePerDomain
        <3>1. OneSitePerDomain /\ extra[d] = Nobody
            BY <1>1, <2>1 DEF InOrder
        <3>2. \A i \in Host : i # h /\ Serves(i, e)' => Serves(i, e) /\ e # d
            BY <1>1, <1>2, <1>3, <3>1 DEF Serves, Live
        <3>3. Serves(h, e)' => e = d
            BY <1>1, <1>3, <1>5 DEF Serves, Extras
        <3> QED
            BY <3>1, <3>2, <3>3 DEF OneSitePerDomain
    <2> QED
        BY <2>2, <2>3, <2>4 DEF InOrder
<1>8. ASSUME NEW k \in Host \ apart' PROVE Undisturbed(k)'
    <2>1. k \notin apart
        BY <1>1, <1>8
    <2>2. CASE k = h
        <3>1. src \notin apart /\ \A c \in Client \ {g} : op[c].pc = "idle" \/ op[c].host # src
            BY <1>1, <1>8, <2>2
        <3>2. Undisturbed(src)
            BY <3>1 DEF IInv
        <3>3. PICK w \in Writer : ups[src] = {w}
            BY <1>1, <1>2, <3>1, <3>2, WholeNow DEF Whole
        <3>4. ups'[k] = {g} /\ route'[k] \in {g, Nobody}
            BY <1>3, <2>2, <3>3
        <3>5. Whole(k)'
            BY <1>2, <3>4 DEF Whole, Routed
        <3> QED
            BY <1>1, <1>5, <2>2, <3>5, NoneUnderWay
    <2>3. CASE k # h
        <3>1. Undisturbed(k)
            BY <2>1 DEF IInv
        <3> QED
            BY <1>1, <1>2, <1>3, <2>3, <3>1, OthersUndisturbed DEF Live
    <2> QED
        BY <2>2, <2>3
<1> QED
    BY <1>4, <1>6, <1>7, <1>8 DEF IInv

LEMMA RenameKeeps ==
    ASSUME IInv, NEW g \in Client, NEW h \in Host, NEW d \in Domain, CoreRename(g, h, d)
    PROVE  IInv'
<1>1. /\ TypeOK /\ UnbornIsFresh /\ InOrder
      /\ op[g].pc = "idle" /\ Live(h) /\ asked' = asked + 1
      /\ \A k \in Host \ {h} : domain[k] # d
      /\ UNCHANGED <<extra, ups, route, op, orphaned, shortened>>
      /\ unchecked' = (unchecked \/ extra[d] # Nobody)
      /\ Note(g, h)
    BY DEF CoreRename, Ask, IInv
<1>2. Unborn \notin Domain /\ Nobody \notin Host /\ "idle" \notin Rewriting
    BY HostRowsAssumption DEF Rewriting
<1>3. /\ \A k \in Host : domain'[k] = IF k = h THEN d ELSE domain[k]
      /\ domain' \in [Host -> Domain \cup {Unborn, Gone}]
    BY <1>1 DEF CoreRename, TypeOK
<1>4. /\ raced' \in BOOLEAN /\ apart' \subseteq Host /\ apart \subseteq apart'
      /\ ~raced' => ~raced /\ \A k \in Client \ {g} : op[k].pc = "idle"
      /\ h \notin apart' => \A k \in Client \ {g} : op[k].pc = "idle" \/ op[k].host # h
    BY <1>1, NoteSays
<1>5. TypeOK'
    BY <1>1, <1>3, <1>4 DEF TypeOK
<1>6. UnbornIsFresh'
    BY <1>1, <1>2, <1>3 DEF UnbornIsFresh, Extras
<1>7. InOrder'
    <2> SUFFICES ASSUME ~raced' PROVE InOrder'
        BY DEF InOrder
    <2>1. \A k \in Client : Orderly(k)' /\ OwnersAreKnown(k)'
        BY <1>1, <1>4, NobodyLeft
    <2>2. ~orphaned' => NoOrphanRows'
        BY <1>1, <1>3, <1>4 DEF InOrder, NoOrphanRows, Live, TypeOK
    <2>3. ~unchecked' => OneSitePerDomain'
        <3> SUFFICES ASSUME ~unchecked', NEW e \in Domain, NEW j \in Host, NEW k \in Host,
                            Serves(j, e)', Serves(k, e)'
                     PROVE  j = k
            BY DEF OneSitePerDomain
        <3>1. OneSitePerDomain /\ extra[d] = Nobody
            BY <1>1, <1>4 DEF InOrder
        <3>2. \A i \in Host : i # h /\ Serves(i, e)' => Serves(i, e) /\ e # d
            BY <1>1, <1>2, <1>3, <3>1 DEF Serves, Live
        <3>3. Serves(h, e)' => e = d \/ Serves(h, e)
            BY <1>1, <1>3 DEF Serves
        <3> QED
            BY <3>1, <3>2, <3>3 DEF OneSitePerDomain
    <2> QED
        BY <2>1, <2>2, <2>3 DEF InOrder
<1>8. ASSUME NEW k \in Host \ apart' PROVE Undisturbed(k)'
    <2>1. Undisturbed(k) /\ (Live(k)' <=> Live(k))
        BY <1>1, <1>3, <1>4, <1>8 DEF IInv, Live
    <2> QED
        BY <1>1, <1>2, <2>1, OthersUndisturbed
<1> QED
    BY <1>5, <1>6, <1>7, <1>8 DEF IInv

LEMMA ImportKeeps ==
    ASSUME IInv, NEW g \in Client, NEW new \in SUBSET {h \in Host : domain[h] = Unborn},
           NEW p \in [new -> Domain], NEW x \in [Domain -> new \cup {Nobody}],
           NEW cascade \in BOOLEAN, ImportAll(g, new, p, x, cascade)
    PROVE  IInv'
<1> DEFINE ext == IF cascade THEN [d \in Domain |-> IF extra[d] \in Host /\ Live(extra[d])
                                                    THEN Nobody ELSE extra[d]]
                             ELSE extra
<1>1. /\ TypeOK /\ UnbornIsFresh /\ InOrder
      /\ op[g].pc = "idle" /\ asked' = asked + 1 /\ op' = op /\ shortened' = shortened
      /\ \A h, k \in new : p[h] = p[k] => h = k
      /\ orphaned' = (orphaned \/ \E d \in Domain : ext[d] # Nobody)
      /\ unchecked' = (unchecked \/ \E h \in new : x[p[h]] \notin {h, Nobody})
      /\ raced' = (raced \/ \E k \in Client \ {g} : op[k].pc # "idle")
      /\ apart' = apart \cup {op[c].host : c \in {k \in Client \ {g} : op[k].pc # "idle"}}
      /\ extra' = [d \in Domain |-> IF x[d] # Nobody THEN x[d] ELSE ext[d]]
    BY DEF ImportAll, Ask, Others, IInv
<1>2. /\ Unborn \notin Domain /\ Gone \notin Domain /\ Unborn # Gone /\ Nobody \notin Host
      /\ g \in Writer /\ Nobody \notin Writer /\ new \subseteq Host
    BY HostRowsAssumption DEF Writer
<1>3. /\ ext \in [Domain -> Host \cup {Nobody}]
      /\ \A d \in Domain : ext[d] # Nobody => ext[d] = extra[d]
    BY <1>1 DEF TypeOK
<1> HIDE DEF ext
<1>4. /\ \A k \in Host : domain'[k] = IF k \in new THEN p[k]
                                     ELSE IF Live(k) THEN Gone ELSE domain[k]
      /\ \A d \in Domain : extra'[d] = IF x[d] # Nobody THEN x[d] ELSE ext[d]
      /\ \A k \in Host : ups'[k] = IF k \in new THEN {g} ELSE {}
      /\ \A k \in Host : route'[k] = IF k \in new THEN g ELSE Nobody
    BY <1>1 DEF ImportAll
<1>5. TypeOK'
    <2>1. domain' \in [Host -> Domain \cup {Unborn, Gone}]
        BY <1>1 DEF ImportAll, TypeOK
    <2>2. extra' \in [Domain -> Host \cup {Nobody}]
        BY <1>1, <1>2, <1>3
    <2>3. ups' \in [Host -> SUBSET Writer] /\ route' \in [Host -> Writer \cup {Nobody}]
        BY <1>2 DEF ImportAll
    <2>4. apart' \subseteq Host
        BY <1>1 DEF UnbornIsFresh, TypeOK
    <2>5. asked' \in Nat /\ raced' \in BOOLEAN /\ orphaned' \in BOOLEAN /\ unchecked' \in BOOLEAN
        BY <1>1 DEF TypeOK
    <2> QED
        BY <1>1, <2>1, <2>2, <2>3, <2>4, <2>5 DEF TypeOK
<1>6. \A h \in new : Extras(h) = {} /\ \A c \in Client : op[c].pc # "idle" => op[c].host # h
    BY <1>1 DEF UnbornIsFresh
<1>7. \A k \in Host : domain'[k] = Unborn => domain[k] = Unborn /\ k \notin new
    BY <1>2, <1>4
<1>8. UnbornIsFresh'
    <2>1. \A k \in Host \ new : Extras(k) = {} => Extras(k)' = {}
        BY <1>2, <1>3, <1>4 DEF Extras
    <2> QED
        BY <1>1, <1>4, <1>7, <2>1 DEF UnbornIsFresh
<1>9. \A k \in Host : Live(k)' <=> k \in new
    BY <1>2, <1>4 DEF Live
<1>10. InOrder'
    <2> SUFFICES ASSUME ~raced' PROVE InOrder'
        BY DEF InOrder
    <2>1. ~raced /\ \A k \in Client \ {g} : op[k].pc = "idle"
        BY <1>1
    <2>2. \A k \in Client : Orderly(k)' /\ OwnersAreKnown(k)'
        BY <1>1, <2>1, NobodyLeft
    <2>3. ~orphaned' => NoOrphanRows'
        BY <1>1, <1>2, <1>4, <1>9 DEF NoOrphanRows
    <2>4. ~unchecked' => OneSitePerDomain'
        <3> SUFFICES ASSUME ~unchecked', NEW d \in Domain, NEW j \in Host, NEW k \in Host,
                            Serves(j, d)', Serves(k, d)'
                     PROVE  j = k
            BY DEF OneSitePerDomain
        <3>1. \A h \in new : x[p[h]] \in {h, Nobody}
            BY <1>1
        <3>2. j \in new /\ k \in new
            BY <1>9 DEF Serves
        <3>3. \A h \in new : extra'[d] = h => x[d] = h
            BY <1>3, <1>4, <1>6 DEF Extras
        <3>4. (p[j] = d \/ x[d] = j) /\ (p[k] = d \/ x[d] = k)
            BY <1>4, <3>2, <3>3 DEF Serves
        <3> QED
            BY <1>1, <1>2, <3>1, <3>2, <3>4
    <2> QED
        BY <2>2, <2>3, <2>4 DEF InOrder
<1>11. ASSUME NEW k \in Host \ apart' PROVE Undisturbed(k)'
    <2>1. \A c \in Client : op[c].pc = "idle" \/ op[c].host # k
        BY <1>1, <1>11
    <2>2. Live(k)' => Whole(k)'
        BY <1>2, <1>4, <1>9 DEF Whole, Routed
    <2> QED
        BY <1>1, <2>1, <2>2, NoneUnderWay
<1> QED
    BY <1>5, <1>8, <1>10, <1>11 DEF IInv

-----------------------------------------------------------------------------
LEMMA StepIInv == IInv /\ [Next]_vars => IInv'
<1> SUFFICES ASSUME IInv, [Next]_vars PROVE IInv'
    OBVIOUS
<1>1. ASSUME NEW g \in Client, Begin(g) PROVE IInv'
    <2>1. CASE \E h \in Host, p \in Domain : \E xs \in SUBSET (Domain \ {p}) :
                  UpdateRead(g, h, p, xs) \/ \E cascade \in BOOLEAN : Create(g, h, p, xs, cascade)
        <3>1. PICK h \in Host, p \in Domain, xs \in SUBSET Domain :
                  UpdateRead(g, h, p, xs) \/ \E cascade \in BOOLEAN : Create(g, h, p, xs, cascade)
            BY <2>1
        <3> QED
            BY <3>1, CreateKeeps, ReadKeeps
    <2>2. CASE \E h \in Host : ToggleRead(g, h) \/ \E cascade \in BOOLEAN : Delete(g, h, cascade)
        BY <2>2, ToggleReadKeeps, DeleteKeeps
    <2>3. CASE \E h \in Host, d \in Domain :
                  CoreRename(g, h, d) \/ \E src \in Host : CloneHost(g, h, src, d)
        BY <2>3, RenameKeeps, CloneKeeps
    <2>4. CASE \E new \in SUBSET {h \in Host : domain[h] = Unborn}, cascade \in BOOLEAN :
                  \E p \in [new -> Domain], x \in [Domain -> new \cup {Nobody}] :
                      ImportAll(g, new, p, x, cascade)
        BY <2>4, ImportKeeps
    <2> QED
        BY <1>1, <2>1, <2>2, <2>3, <2>4 DEF Begin
<1>2. ASSUME NEW g \in Client, Continue(g) PROVE IInv'
    <2>1. ASSUME NEW k \in Host, NEW cascade \in BOOLEAN,
                 \/ UpdatePromote(g, k) \/ UpdatePromoteFails(g, k) \/ UpdateDropExtras(g, k)
                 \/ UpdateDropHost(g, k, cascade)
          PROVE  IInv'
        BY <2>1, PromoteKeeps, PromoteFailsKeeps, DropExtrasKeeps, DropHostKeeps
    <2>2. ASSUME NEW failed \in SUBSET {"read", "domains", "upstreams"}, UpdateWipe(g, failed)
          PROVE  IInv'
        BY <2>2, WipeKeeps
    <2>3. ASSUME \/ UpdateCheck(g) \/ UpdateRefused(g) \/ UpdateSave(g) \/ UpdateDomains(g)
                 \/ UpdateUpstreams(g) \/ ToggleSave(g) \/ ToggleFails(g)
          PROVE  IInv'
        BY <2>3, CheckKeeps, EndKeeps, SaveKeeps, DomainsKeep, UpstreamsKeep, ToggleSaveKeeps
    <2>4. TRUE \in BOOLEAN
        OBVIOUS
    <2> QED
        BY <1>2, <2>1, <2>2, <2>3, <2>4 DEF Continue
<1>3. CASE UNCHANGED vars
    <2>1. TypeOK' /\ UnbornIsFresh'
        BY <1>3 DEF IInv, TypeOK, UnbornIsFresh, Extras, vars, tables
    <2>2. InOrder'
        BY <1>3 DEF IInv, InOrder, Orderly, Claimed, NoConflict, Want, Extras, ReadIsFresh,
                    HeirsAreFree, OwnersAreKnown, NoOrphanRows, OneSitePerDomain, Serves, Live,
                    vars, tables
    <2>3. \A h \in Host \ apart' : Undisturbed(h)'
        BY <1>3 DEF IInv, Undisturbed, UpstreamsOfUpdate, WholeUnlessRewritten, Whole, Routed,
                    Live, vars, tables
    <2> QED
        BY <2>1, <2>2, <2>3 DEF IInv
<1> QED
    BY <1>1, <1>2, <1>3 DEF Next, Request

(* What the tables and the requests that change them keep, statement by    *)
(* statement.                                                              *)
THEOREM Invariance == Spec => []IInv
<1> QED
    BY InitIInv, StepIInv, PTL DEF Spec

(* Every variable keeps its type.                                          *)
THEOREM TypeCorrect == Spec => []TypeOK
<1>1. IInv => TypeOK
    BY DEF IInv
<1> QED
    BY <1>1, Invariance, PTL

(* Claims and checks give a domain to one host, so long as no change falls *)
(* between the steps of another, no host was named without the check and   *)
(* no import brought two hosts that share a domain across the two tables.  *)
THEOREM DomainsAreUnique == Spec => []CheckedDomainsAreUnique
<1>1. IInv => CheckedDomainsAreUnique
    BY DEF IInv, InOrder, CheckedDomainsAreUnique
<1> QED
    BY <1>1, Invariance, PTL

(* A host can be given any domains, whatever the others have: what is in   *)
(* the way is taken from them, by a transaction at once and by an update   *)
(* that nothing overlaps one statement after the other.                    *)
THEOREM DomainsCanBeClaimed == Spec => []EveryDomainCanBeClaimed
<1>1. ASSUME IInv, ~raced, ~orphaned, NEW h \in Host, NEW want \in SUBSET Domain,
             NEW next \in Promotions(h, want)
      PROVE  NoConflict(h, want, ClaimedDomain(h, want, next), ClaimedExtra(h, want, next, TRUE))
    <2> DEFINE dom == ClaimedDomain(h, want, next)
               ext == ClaimedExtra(h, want, next, TRUE)
    <2>1. /\ domain \in [Host -> Domain \cup {Unborn, Gone}]
          /\ extra \in [Domain -> Host \cup {Nobody}]
          /\ NoOrphanRows
        BY <1>1 DEF IInv, TypeOK, InOrder
    <2>2. Unborn \notin Domain /\ Gone \notin Domain /\ Nobody \notin Host
        BY HostRowsAssumption
    <2>3. ASSUME NEW k \in Host \ {h} PROVE dom[k] \notin want
        <3>1. dom[k] = IF k \in Doomed(h, want) THEN Gone
                       ELSE IF k \in Heirs(h, want) THEN next[k] ELSE domain[k]
            BY DEF ClaimedDomain
        <3>2. k \in Heirs(h, want) => next[k] \notin want
            BY DEF Promotions, Remaining
        <3>3. domain[k] \in want =>
                 k \in Losers(h, want) /\ (k \in Doomed(h, want) \/ k \in Heirs(h, want))
            BY DEF Losers, Serves, Live, Doomed, Heirs
        <3> QED
            BY <2>2, <3>1, <3>2, <3>3
    <2>4. ASSUME NEW d \in want PROVE ext[d] \in {h, Nobody}
        <3>1. CASE extra[d] \in {h, Nobody}
            BY <3>1 DEF ClaimedExtra
        <3>2. CASE extra[d] \notin {h, Nobody}
            <4>1. extra[d] \in Losers(h, want)
                BY <2>1, <3>2 DEF NoOrphanRows, Losers, Serves
            <4> QED
                BY <4>1 DEF ClaimedExtra
        <3> QED
            BY <3>1, <3>2
    <2> QED
        BY <2>3, <2>4 DEF NoConflict
<1>2. ASSUME IInv, ~raced, ~orphaned, NEW g \in Client, op[g].pc = "claiming", op[g].owners = {}
      PROVE  NoConflict(op[g].host, Want(g), domain, extra)
    <2>1. OwnersAreKnown(g)
        BY <1>2 DEF IInv, InOrder
    <2> QED
        BY <1>2, <2>1 DEF OwnersAreKnown, NoConflict
<1>3. IInv => EveryDomainCanBeClaimed
    BY <1>1, <1>2 DEF EveryDomainCanBeClaimed
<1> QED
    BY <1>3, Invariance, PTL

(* A host that no failed and no overlapping request has touched has the    *)
(* upstreams of one request, and its route names one of them, or one that  *)
(* an update with fewer upstreams deleted.                                 *)
THEOREM HostsAreWhole == Spec => []UndisturbedHostIsWhole
<1>1. IInv => UndisturbedHostIsWhole
    <2> SUFFICES ASSUME IInv, NEW h \in Host, Live(h), h \notin apart, Quiet
                 PROVE  /\ Cardinality(ups[h]) = 1
                        /\ route[h] \in ups[h] \cup {Nobody} \/ h \in shortened
        BY DEF UndisturbedHostIsWhole
    <2>1. "idle" \notin Rewriting
        BY DEF Rewriting
    <2>2. Whole(h)
        BY <2>1 DEF IInv, Undisturbed, WholeUnlessRewritten, Quiet
    <2>3. PICK w \in Writer : ups[h] = {w} /\ (route[h] \in {w, Nobody} \/ h \in shortened)
        BY <2>2 DEF Whole, Routed
    <2>4. Cardinality({w}) = 1
        BY FS_Singleton
    <2> QED
        BY <2>3, <2>4
<1> QED
    BY <1>1, Invariance, PTL
=============================================================================
