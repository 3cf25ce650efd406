---------------------------- MODULE MCPriceLists ----------------------------
(***************************************************************************)
(* Two list versions of one master version and two that stand for nothing, *)
(* one of them excluded; lists of up to three records with fingerprints    *)
(* that agree, complete one another or clash; every history of up to three *)
(* rows on three dates.                                                    *)
(***************************************************************************)
EXTENDS PriceLists

CONSTANTS run1, run2, resume1, resume2, canon1, canon2, report

MCAliases == {[key |-> "k2", version |-> 1]}
MCMasters == {[key |-> "k1", version |-> 1], [key |-> "k2", version |-> 2], [key |-> "k2", version |-> 3]}

Fp(cc, hp) == [f \in Fields |-> CASE f = "cc" -> cc [] f = "hp" -> hp
                                   [] f \in {"transmision", "combustible"} -> "known" [] OTHER -> NULL]
Fuel(fp, fuel) == [fp EXCEPT !["combustible"] = fuel]
FpElectric(fuel, pasajeros) ==
  [Fuel(Fp(NULL, 1), fuel) EXCEPT !["traccion"] = "known", !["pasajeros"] = pasajeros]
Tuple(price, bonus) == [price |-> price, bonus |-> bonus]
Rec(key, from, tuple, fp) == [key |-> key, sheet |-> "autos", from |-> from, tuple |-> tuple, fp |-> fp, valid |-> TRUE]
Electrics(record) == [record EXCEPT !.sheet = "electricos"]
Blank == [key |-> "k1", sheet |-> "autos", from |-> 0, tuple |-> Tuple(0, NULL), fp |-> Fp(NULL, NULL), valid |-> FALSE]
Version(key) == [key |-> key, sheet |-> "autos", fp |-> Fp(NULL, NULL), status |-> "incomplete"]

List1 == <<Rec("k1", 2, Tuple(2, NULL), Fp(1, NULL)), Blank, Rec("k1", 2, Tuple(1, NULL), Fp(2, 1))>>
List2 == <<Rec("k2", 2, Tuple(1, 0), Fp(1, 1)), Rec("k1", 2, Tuple(2, 0), Fp(NULL, 1))>>
List3 == <<Rec("k3", 2, Tuple(1, 0), Fp(1, 1))>>
List4 == <<Rec("k1", 1, Tuple(1, 0), Fp(1, 1))>>
Empty == [versions |-> <<>>, history |-> {}]
Row(pv, from, tuple) == [pv |-> pv, from |-> from, tuple |-> tuple, src |-> 9]
Some == [versions |-> <<[key |-> "k1", sheet |-> "autos", fp |-> Fp(NULL, 2), status |-> "partial"]>>,
         history |-> {Row(1, 1, Tuple(2, NULL)), Row(1, 3, Tuple(2, NULL))}]

Later == [versions |-> <<Version("k1")>>,
          history |-> {Row(1, 2, Tuple(2, NULL)), Row(1, 3, Tuple(2, 0))}]

\* One version in two sheets, or with a fuel only its second record has.
TwoSheets == <<Rec("k1", 2, Tuple(1, 0), Fp(1, 1)),
               Electrics(Rec("k1", 1, Tuple(1, 0), FpElectric("known", NULL)))>>
TwoFuels == <<Rec("k1", 2, Tuple(1, 0), Fuel(Fp(1, 1), NULL)),
              Rec("k1", 1, Tuple(1, 0), FpElectric("electrico", 5)),
              Rec("ev", 1, Tuple(1, 0), FpElectric(NULL, 5))>>
OfElectrics == [versions |-> <<[key |-> "k1", sheet |-> "electricos", fp |-> FpElectric("known", NULL),
                                status |-> "partial"]>>, history |-> {}]

Rows == {Row(pv, from, t) : pv \in 1..2, from \in 1..3,
                            t \in {Tuple(1, NULL), Tuple(1, 0), Tuple(2, 0)}}
Histories == {{}} \cup {{x, y, z} : x, y, z \in Rows}
             \cup {{Row(3, 2, Tuple(1, 0)), Row(1, 1, Tuple(1, 0))}}
Two == <<Version("k1"), Version("k2"), Version("k3")>>

Scenario(act, list, stored) == [active |-> act, lists |-> list, stored |-> stored, table |-> NoTable]
Published(stored) ==
  LET episodes == EpisodesOf(Points(stored.versions, stored.history))
  IN Persisted(episodes, Assignments(Vehicles, episodes))

MCScenarios ==
  UNION {{Scenario(act, List1, Some), Scenario(act, List2, Empty)} :
           act \in {{run1, run2}, {run1, resume1, resume2}}}
  \cup {Scenario({run1, canon1, report}, list, Some) : list \in {List2, List3}}
  \cup {Scenario({run1, canon1, canon2}, List4, Later),
        [Scenario({run1, canon1, report}, List4, Later) EXCEPT !.table = Published(Later)]}
  \cup {Scenario({run1, resume1}, list, stored) : list \in {TwoSheets, TwoFuels, Reverse(TwoSheets)},
                                                  stored \in {Empty, OfElectrics}}
  \cup {Scenario({canon1}, <<>>, [versions |-> Two, history |-> h]) : h \in Histories}

MCVehicles == {[id |-> n, version |-> 1, date |-> n] : n \in 1..3}
=============================================================================
