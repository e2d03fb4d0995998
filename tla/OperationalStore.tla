--------------------------- MODULE OperationalStore ---------------------------
(***************************************************************************)
(* PostgresStore as an OperationalStore (src/storage/implementations.py):  *)
(* the table of identities, and upsert_entity as the two statements of one *)
(* transaction.  Between the SELECT and the commit other transactions run. *)
(* A row is a record [class, by]: the class the entity was stored with and *)
(* the event it was made from.                                             *)
(***************************************************************************)
EXTENDS Integers

CONSTANT Id           \* canonical identifiers

VARIABLES
  identities,   \* the table: a row per identifier, or NoRow
  dbUp          \* the database answers

storeVars == <<identities, dbUp>>

NoRow == [class |-> "none", by |-> 0]

StoreInit ==
  /\ identities = [i \in Id |-> NoRow]
  /\ dbUp = TRUE

HasRow(i) == identities[i] # NoRow

\* get_entity builds every row as the base class, whatever was stored.
GetEntity(i) ==
  IF HasRow(i) THEN [identities[i] EXCEPT !.class = "CanonicalIdentity"]
               ELSE NoRow

\* Mutant: the type is taken from the base class.
Writes_BaseClass(i, saw, row) ==
  /\ dbUp
  /\ saw \/ ~HasRow(i)
  /\ identities' =
       [identities EXCEPT ![i] = [row EXCEPT !.class = "CanonicalIdentity"]]
  /\ UNCHANGED dbUp

\* The write of upsert_entity commits: an UPDATE if the SELECT saw a row,
\* and else an INSERT, which the primary key rejects when a row has come in
\* between.  An UPDATE leaves identity_type alone.
Writes(i, saw, row) ==
  /\ dbUp
  /\ saw \/ ~HasRow(i)
  /\ identities' =
       [identities EXCEPT ![i] = IF saw THEN [@ EXCEPT !.by = row.by]
                                        ELSE row]
  /\ UNCHANGED dbUp

\* The session raises: the database is away, or the primary key conflicts.
Raises(i, saw) ==
  /\ ~dbUp \/ (~saw /\ HasRow(i))
  /\ UNCHANGED storeVars

\* Nothing is deleted, so an outage changes no row.
Outage == dbUp /\ dbUp' = FALSE /\ UNCHANGED identities
Recovery == ~dbUp /\ dbUp' = TRUE /\ UNCHANGED identities
=============================================================================
