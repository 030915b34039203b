------------------------- MODULE DeploymentListing -------------------------
(***************************************************************************)
(* The manager's listings out of its store (db/deployment.go,              *)
(* db/provider.go): a WHERE clause built from the option's ID, owner and   *)
(* state set, the page and size normalised, LIMIT size OFFSET offset over  *)
(* the rows the server returns, and, for deployments, the folding of the   *)
(* joined deployment-service rows into deployments.                        *)
(*                                                                         *)
(* A row of the deployments LEFT JOIN services is a record: the            *)
(* deployment's id, state and owner, and the service it carries.  The     *)
(* query has no ORDER BY, so the server may return the rows in any order:  *)
(* the operators take the row sequence as the server produced it.          *)
(***************************************************************************)
EXTENDS Integers, Sequences, SequencesExt, FiniteSets

\* The empty string of an option field: no condition on it.
NoFilter == ""

(***************************************************************************)
(* The WHERE clause: d.id = ID if ID is set, d.owner = Owner if Owner is   *)
(* set, d.state IN (State...) if State is not empty, joined with AND.      *)
(***************************************************************************)
Matches(r, opt) ==
    /\ opt.id = NoFilter \/ r.id = opt.id
    /\ opt.owner = NoFilter \/ r.owner = opt.owner
    /\ opt.states = {} \/ r.state \in opt.states

\* Page <= 0 becomes 1 and Size <= 0 becomes 10; offset = (Page-1)*Size.
EffPage(opt) == IF opt.page <= 0 THEN 1 ELSE opt.page
EffSize(opt) == IF opt.size <= 0 THEN 10 ELSE opt.size
Offset(opt) == (EffPage(opt) - 1) * EffSize(opt)

\* LIMIT EffSize OFFSET Offset over the matching rows, in the server's order.
Page(rows, opt) ==
    LET m    == SelectSeq(rows, LAMBDA r : Matches(r, opt))
        last == IF Offset(opt) + EffSize(opt) < Len(m) THEN Offset(opt) + EffSize(opt) ELSE Len(m)
    IN  SubSeq(m, Offset(opt) + 1, last)

\* ManagerDB.GetAllProviders: the same clause and page over the providers table.
GetAllProviders(rows, opt) == Page(rows, opt)

(***************************************************************************)
(* One iteration of GetDeployments' loop over the selected rows: the first *)
(* row of an ID appends its deployment (fields of that row) with an empty  *)
(* service list to out and records it in deploymentToServices; every row  *)
(* then appends its service to the deployment of its ID.                   *)
(***************************************************************************)
GroupRowConsecutive(out, r) ==
    IF out # <<>> /\ Last(out).id = r.id
    THEN [out EXCEPT ![Len(out)].services = Append(@, r.svc)]
    ELSE Append(out, [id |-> r.id, state |-> r.state, owner |-> r.owner, services |-> <<r.svc>>])

GroupRow(out, r) ==
    LET known == {i \in DOMAIN out : out[i].id = r.id} IN
    IF known = {}
    THEN Append(out, [id |-> r.id, state |-> r.state, owner |-> r.owner, services |-> <<r.svc>>])
    ELSE LET i == CHOOSE i \in known : TRUE
         IN  [out EXCEPT ![i].services = Append(@, r.svc)]

\* ManagerDB.GetDeployments: the page of joined rows folded into deployments.
GetDeployments(rows, opt) == FoldLeft(GroupRow, <<>>, Page(rows, opt))

-----------------------------------------------------------------------------
(***************************************************************************)
(* Bounded inputs.  Two deployments, each absent or stored with a state,   *)
(* an owner and one or two services (a deployment is stored with its      *)
(* services in one transaction, and the bulk insert refuses none); the     *)
(* joined rows in every order the server may return them.  Options as the  *)
(* CLI and the API send them: no filter or one value per field, the state  *)
(* sets of the CLI's list, list --show-all and delete, page and size at    *)
(* and around the normalisation.                                           *)
(***************************************************************************)
LDIDs == {"da", "db"}
LOwners == {"o1", "o2"}
LStates == {"Active", "InActive", "Close"}

Stored == [state : LStates, owner : LOwners, n : 1..2]

StoreRowSet(store) ==
    UNION {{[id |-> d, state |-> store[d].state, owner |-> store[d].owner, svc |-> <<d, k>>] :
               k \in 1..store[d].n} : d \in DOMAIN store}

Stores == UNION {[D -> Stored] : D \in SUBSET LDIDs}

Options ==
    [id : {NoFilter, "da"}, owner : {NoFilter, "o1"},
     states : {{}, {"Active"}, LStates}, page : -1..2, size : -1..2]

(***************************************************************************)
(* ListingAsSpecified: for every store, every order the rows come back in  *)
(* and every option, the listing is the spec's: each deployment of the     *)
(* page appears once, matches the filter and carries its own state, and    *)
(* its services are those of its rows on the page; a first page at least   *)
(* as large as the matching rows lists every matching deployment with all *)
(* of its services; and the pagination examples (page 0 is page 1, size  *)
(* -5 is size 10, page 3 of size 20 starts at row 40) hold.  The rows of   *)
(* one deployment need not be adjacent, since the query has no ORDER BY.   *)
(***************************************************************************)
ServicesOf(p, d) == LET q == SelectSeq(p, LAMBDA r : r.id = d) IN [j \in DOMAIN q |-> q[j].svc]

ListingAsSpecified ==
    /\ EffPage([page |-> 0]) = 1 /\ EffSize([size |-> -5]) = 10
    /\ Offset([page |-> 3, size |-> 20]) = 40
    /\ \A store \in Stores, opt \in Options :
         LET all == StoreRowSet(store) IN
         \A rows \in SetToSeqs(all) :
           LET p   == Page(rows, opt)
               out == GetDeployments(rows, opt)
               ids == {out[i].id : i \in DOMAIN out}
           IN /\ Len(out) = Cardinality(ids)
              /\ ids = {p[j].id : j \in DOMAIN p}
              /\ \A i \in DOMAIN out :
                   /\ out[i].state = store[out[i].id].state
                   /\ Matches(out[i], opt)
                   /\ ToBag(out[i].services) = ToBag(ServicesOf(p, out[i].id))
              /\ Offset(opt) = 0 /\ EffSize(opt) >= Cardinality({r \in all : Matches(r, opt)}) =>
                   Range(p) = {r \in all : Matches(r, opt)}
=============================================================================
