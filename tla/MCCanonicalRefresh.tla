------------------------ MODULE MCCanonicalRefresh ------------------------
(***************************************************************************)
(* Two vehicles, two contents of vehiculos_raw that differ in who is there *)
(* and in what is known of them, a third that repeats a VIN, and pairs of  *)
(* ventas_raw and notas_venta_raw for the ways a sale can be found and its *)
(* dealer named.                                                           *)
(***************************************************************************)
EXTENDS CanonicalRefresh, TLC

CONSTANTS first, second, third, a, b, north, south, retail, finance, downtown, mall,
          partner, person, shop, agency

MCDealers == {north, south, retail, finance}
MCGroupOf == [d \in MCDealers |-> IF d = retail THEN NULL ELSE "group"]
MCAliasedBy == [x \in {Forum, person, shop, agency} |->
                  IF x = shop THEN {north} ELSE IF x = agency THEN {south} ELSE {}]
MCChannelOf == [x \in {downtown, mall, partner} |-> IF x = partner THEN "DEALER" ELSE "CIDEF"]

Car(vin, copy, etapa, invoice, version) ==
  [vin |-> vin, copy |-> copy, etapa |-> etapa, invoice |-> invoice, version |-> version,
   date |-> IF vin = a THEN 1 ELSE NULL, note |-> IF invoice = NULL THEN NULL ELSE "n"]

Full == {Car(a, 1, "stock", "i", NULL), Car(b, 1, NULL, NULL, "v1")}
Alone == {Car(a, 1, NULL, NULL, "v1")}
Known == {Car(a, 1, "sold", NULL, NULL), Car(b, 1, "stock", NULL, "v2")}
Twice == {Car(a, 1, "stock", "i", NULL), Car(a, 2, "stock", "i", NULL)}
MCVehicleFiles == {Full, Alone, Known, Twice}

Sale(invoice, buyer, financed, branch, version) ==
  [vin |-> a, invoice |-> invoice, date |-> 1, op |-> "o", buyer |-> buyer,
   financed |-> financed, branch |-> branch, version |-> version]

NoMention == [rut |-> {}, legal |-> {}, name |-> {}]
Note(invoice, op, financed, comment) ==
  [vin |-> a, invoice |-> invoice, date |-> 1, op |-> op, note |-> "n", buyer |-> person,
   financed |-> financed, branch |-> NULL, comment |-> comment, version |-> "v1"]

Legal(dealers) == [NoMention EXCEPT !.legal = dealers]
Rut(dealers) == [Legal({north}) EXCEPT !.rut = dealers]

Files(ventas, notas) == [ventas |-> ventas, notas |-> notas]

MCSaleFiles ==
  { Files({Sale("i", person, FALSE, downtown, "v1")}, {}),
    Files({Sale("i", person, FALSE, downtown, "v1"), Sale("i", person, FALSE, mall, "v2")}, {}),
    Files({Sale("x", shop, FALSE, partner, NULL)}, {Note("i", "o", TRUE, Legal({south, finance}))}),
    Files({Sale("i", Forum, TRUE, NULL, NULL)}, {Note("i", "o", FALSE, Rut({south, retail}))}),
    Files({Sale("i", shop, FALSE, partner, NULL), Sale("i", agency, TRUE, partner, NULL)},
          {Note("i", "o", FALSE, Rut({retail}))}),
    Files({Sale("i", person, FALSE, partner, "v1")},
          {Note("i", "p", TRUE, [NoMention EXCEPT !.name = {south}])}),
    Files({}, {Note(NULL, "o", TRUE, Rut({retail}))}) }

Symmetry == Permutations(Refreshes)
=============================================================================
