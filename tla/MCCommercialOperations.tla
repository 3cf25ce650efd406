----------------------- MODULE MCCommercialOperations -----------------------
(***************************************************************************)
(* Two operations of one client, who has one deal or two.  The seller is   *)
(* written in Forum in another order than in the masters, or with a name   *)
(* only the CRM explains; a second store has a seller of similar name.     *)
(***************************************************************************)
EXTENDS CommercialOperations, TLC

CONSTANTS o1, o2, d1, d2, soto, lira, client, other

MCPeople == {soto, lira}
MCNameOf == [p \in MCPeople |-> IF p = soto THEN <<"JUAN", "PEREZ", "SOTO">>
                                ELSE <<"JUAN", "PEREZ", "LIRA">>]
Post(person, store, to) == [person |-> person, store |-> store, from |-> 0, to |-> to]
MCWorks == {Post(soto, 4, 60), Post(lira, 7, 60), Post(lira, 4, 20)}
MCLinkOf == [d \in {d1, d2} |-> IF d = d1 THEN "vin" ELSE None]
MCStoreOfVin == [v \in {"vin"} |-> 99]

Quote(rut, store, seller, day) == [rut |-> rut, store |-> store, seller |-> seller, day |-> day]
Reversed == <<"SOTO", "JUAN", "PEREZ">>
Short == <<"J", "PEREZ">>
Quote1 == (o1 :> Quote(client, 4, Short, 30))
Quote2 == (o2 :> Quote(client, 4, Short, 35))
Moved1 == (o1 :> Quote(client, 4, Reversed, 10))
Moved2 == (o2 :> Quote(other, 7, Reversed, 35))

\* The second export moves d1 to another client and brings d2.
Export1 == (d1 :> Quote(client, 4, <<"JUAN", "PEREZ">>, 40))
Export2 == (d1 :> Quote(other, 7, <<"JUAN", "PEREZ">>, 40))
           @@ (d2 :> Quote(client, 4, <<"LIRA", "JUAN">>, 20))

Job(kind, files, refresh) == [kind |-> kind, files |-> files, refresh |-> refresh]
\* A refresh that fails after the canonicalizer is one of the canonicalizer alone.
MCJobs == { Job("forum", <<Moved1, Moved2>>, TRUE), Job("crm", <<Export1, Export2>>, TRUE),
            Job("crm", <<Export1>>, FALSE), Job("master", <<>>, FALSE) }
MCFirstForum == Quote1 @@ Quote2
MCFirstCrm == {[deal |-> d1, row |-> Export1[d1], stamp |-> 0]}

Symmetry == Permutations(Requests)
=============================================================================
