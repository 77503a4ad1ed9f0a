------------------------------ MODULE Publisher ------------------------------
(***************************************************************************)
(* The owner of the controller's metric series (controller/publisher.go).  *)
(* An owner is a Policy or an identity.  A series is <<owner, name>>; what *)
(* names stand for one metric or a few that come and go together.  The     *)
(* publisher remembers, per owner, the gauges and the counters it wrote,   *)
(* and per Policy the identities its last pass included; the registry      *)
(* holds the series a scrape sees.  An entry of the code's maps that holds *)
(* nothing is the same here as no entry.                                   *)
(***************************************************************************)
EXTENDS Ledger

Owners == Policies \cup Identities

\* "pods", "autoscaler" and the step an identity is Blocked on are gauges of
\* an identity, "rollup" and the members' recommendations gauges of a Policy.
GaugeNames == {"pods", "autoscaler", "rollup"} \cup Steps \cup Members

CounterNames == {"attempts", "findings", "ooms", "reconciles", "fetchFailures"}

Names == GaugeNames \cup CounterNames

\* A gauge and a counter are metrics of their own, whatever labels they share.
ASSUME NamesAssumption == GaugeNames \cap CounterNames = {}

NoSeries ==
    [includes |-> [p \in Policies |-> {}], gauges |-> [o \in Owners |-> {}],
     counters |-> [o \in Owners |-> {}], registry |-> {}]

\* The series of a function from owners to names.
SeriesOf(names) ==
    {s \in Owners \X Names : s[1] \in DOMAIN names /\ s[2] \in names[s[1]]}

\* replace: the gauges of each owner of names become the ones given, and what
\* it held besides is deleted.
Replace(pub, names) ==
    LET gone == [o \in DOMAIN names |-> pub.gauges[o] \ names[o]]
    IN  [pub EXCEPT
            !.gauges = [o \in Owners |->
                           IF o \in DOMAIN names THEN names[o] ELSE @[o]],
            !.registry = (@ \ SeriesOf(gone)) \cup SeriesOf(names)]

\* add, observe.
Count(pub, names) ==
    [pub EXCEPT
        !.counters = [o \in Owners |->
                         IF o \in DOMAIN names THEN @[o] \cup names[o] ELSE @[o]],
        !.registry = @ \cup SeriesOf(names)]

\* deleteAll of the owners' two sets.
DeleteAll(pub, owners) ==
    LET gone == [o \in owners |-> pub.gauges[o] \cup pub.counters[o]]
    IN  [pub EXCEPT
            !.gauges = [o \in Owners |-> IF o \in owners THEN {} ELSE @[o]],
            !.counters = [o \in Owners |-> IF o \in owners THEN {} ELSE @[o]],
            !.registry = @ \ SeriesOf(gone)]

\* includedLocked.
Included(pub, i) == \E p \in Policies : i \in pub.includes[p]

\* dropLocked.
DropExcluded(pub, ids) == DeleteAll(pub, {i \in ids : ~Included(pub, i)})

\* Mutant: looks for the identities to drop before the Policy's are replaced.
IncludeLate(pub, p, ids) ==
    [DropExcluded(pub, pub.includes[p]) EXCEPT !.includes[p] = ids]

\* The end of publish: ids are what p's last pass included.
Include(pub, p, ids) ==
    DropExcluded([pub EXCEPT !.includes[p] = ids], pub.includes[p])

\* publishIdentity's gauges.  An identity the pass did not compute keeps the
\* autoscaler last published.
IdentityGauges(pub, i, rep, autoscaled) ==
    {n \in {"pods"} : rep.measured} \cup
    ({rep.blockedOn} \ {""}) \cup
    {n \in {"autoscaler"} :
        IF rep.computed THEN i \in autoscaled ELSE n \in pub.gauges[i]}

\* publishIdentity's counters.
IdentityCounters(i, rep, found) ==
    {n \in {"attempts"} : rep.failed} \cup {n \in {"findings"} : i \in found}

\* publish.  report is what the pass found about each identity it included,
\* held the members with a Recommendation, found the identities it counted
\* something else about, autoscaled those an autoscaler targets.
Publish(pub, p, report, held, found, autoscaled) ==
    LET ids == DOMAIN report
        gauges == [o \in ids \cup {p} |->
                      IF o = p THEN {"rollup"} \cup held
                      ELSE IdentityGauges(pub, o, report[o], autoscaled)]
        counters == [o \in ids \cup {p} |->
                        IF o = p
                        THEN {n \in {"fetchFailures"} :
                                 \E i \in ids : report[i].fetchFailed}
                        ELSE IdentityCounters(o, report[o], found)]
    IN  Include(Count(Replace(pub, gauges), counters), p, ids)

\* forget.
ForgetSeries(pub, p) == Include(DeleteAll(pub, {p}), p, {})

\* observedOOM.
ObservedOOM(pub, p, i) ==
    Count([pub EXCEPT !.includes[p] = @ \cup {i}], [o \in {i} |-> {"ooms"}])

\* reconciled.
Reconciled(pub, p) == Count(pub, [o \in {p} |-> {"reconciles"}])
=============================================================================
