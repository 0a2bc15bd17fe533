------------------------------- MODULE Import -------------------------------
(***************************************************************************)
(* Importing the file a business exported into its Odoo: Transform, which  *)
(* keeps the clean rows, and Load, which searches every record and writes  *)
(* what it finds or creates it.  One import at a time; ErpAccess has what  *)
(* happens when two overlap.                                               *)
(*                                                                         *)
(* A row has a name, an id (a product's code, a customer's email) and      *)
(* whether its numbers and email are any good; other columns follow them.  *)
(* Emails have none of the characters that are wildcards to =ilike.        *)
(***************************************************************************)
EXTENDS Lists, Integers, Sequences, FiniteSets

CONSTANTS
  Files,    \* the rows of a file
  Holdings, \* what an Odoo may hold before
  Lower     \* the lower case of each name and id

Texts     == DOMAIN Lower
FileRow   == [name : Texts, id : Texts, good : BOOLEAN]
ErpObject == [name : Texts, id : Texts]

ASSUME ImportAssumption ==
  /\ \A x \in Texts : Lower[x] \in Texts /\ Lower[Lower[x]] = Lower[x] /\ (Lower[x] = NoText <=> x = NoText)
  /\ \A rows \in Files : rows \in Seq(FileRow)
  /\ \A objects \in Holdings : objects \in Seq(ErpObject)

\* Odoo itself does not forbid two products of one code or two customers of one
\* email: with them a search finds now one, now the other, and a name that one
\* of them had may be lost later than after the second import.
ASSUME OneObjectPerId ==
  \A objects \in Holdings : \A i, j \in DOMAIN objects :
    objects[i].id # NoText /\ Lower[objects[i].id] = Lower[objects[j].id] => i = j

VARIABLES
  kind,   \* products or customers
  file,   \* the rows posted
  erp,    \* the objects of that kind, as [name, id]
  at,     \* the record Load is at, 0 between imports
  clean,  \* no record of this import failed so far
  full    \* complete imports so far in which no record failed, up to 2

importVars == <<kind, file, erp, at, clean, full>>

-----------------------------------------------------------------------------
(* Transform. *)

Good(r) == r.name # NoText /\ r.good

\* A customer's email is stored in lower case.
Clean(k, r) == [name |-> r.name, id |-> IF k = "customers" THEN Lower[r.id] ELSE r.id]

Key(r) == IF r.id # NoText THEN <<"id", Lower[r.id]>> ELSE <<"name", Lower[r.name]>>

\* A row with the key of an earlier one takes its place.
Transform(k, rows) ==
  LET Place(out, r) == {i \in DOMAIN out : Key(out[i]) = Key(r)}
      out[n \in 0 .. Len(rows)] ==
        IF n = 0 THEN <<>>
        ELSE IF ~Good(rows[n]) THEN out[n - 1]
        ELSE LET r == Clean(k, rows[n])
             IN  IF Place(out[n - 1], r) = {} THEN Append(out[n - 1], r)
                 ELSE [i \in DOMAIN out[n - 1] |-> IF i \in Place(out[n - 1], r) THEN r ELSE out[n - 1][i]]
  IN  out[Len(rows)]

Records == Transform(kind, file)

-----------------------------------------------------------------------------
(* Load. *)

ImportInit ==
  /\ kind \in {"products", "customers"} /\ file \in Files /\ erp \in Holdings
  /\ at = 0 /\ clean = TRUE /\ full = 0

Begin ==
  /\ at = 0 /\ Records # <<>>
  /\ at' = 1 /\ clean' = TRUE
  /\ UNCHANGED <<kind, file, erp, full>>

\* The searches: by code or by email when the row has one, by name when not.
IsProduct(r, o)  == IF r.id # NoText THEN o.id = r.id ELSE o.name = r.name
IsCustomer(r, o) == IF r.id # NoText THEN Lower[o.id] = r.id ELSE o.name = r.name

Found(r) == {i \in DOMAIN erp : IF kind = "products" THEN IsProduct(r, erp[i]) ELSE IsCustomer(r, erp[i])}

WrittenOver(r, o) == r

\* A write leaves the id of an object alone when the row has none.
Written(r, o) == [name |-> r.name, id |-> IF r.id = NoText THEN o.id ELSE r.id]

Advance(ok) ==
  /\ at' = (at + 1) % (Len(Records) + 1)
  /\ clean' = (clean /\ ok)
  /\ full' = IF at' = 0 /\ clean' /\ full < 2 THEN full + 1 ELSE full
  /\ UNCHANGED <<kind, file>>

\* limit 1: which of several objects is found is up to Odoo.
Update(ok) ==
  /\ at > 0
  /\ \E i \in Found(Records[at]) : erp' = [erp EXCEPT ![i] = Written(Records[at], @)]
  /\ Advance(ok)

Create(ok) ==
  /\ at > 0 /\ Found(Records[at]) = {}
  /\ erp' = Append(erp, Records[at])
  /\ Advance(ok)

\* The record is reported and the next one follows; what failed may have had
\* its effect.
Skip ==
  /\ at > 0 /\ erp' = erp
  /\ Advance(FALSE)

\* The ten minutes are over.
Stop ==
  /\ at > 0 /\ at' = 0 /\ clean' = FALSE
  /\ UNCHANGED <<kind, file, erp, full>>

ImportNext == Begin \/ Skip \/ Stop \/ \E ok \in BOOLEAN : Update(ok) \/ Create(ok)

-----------------------------------------------------------------------------

\* Rows of the file that are to be the same object.
Same(r, s) == IF r.id # NoText \/ s.id # NoText THEN Lower[r.id] = Lower[s.id] ELSE Lower[r.name] = Lower[s.name]

\* Every good row that no later one repeats is in the ERP under its name.
AllThere ==
  \A n \in DOMAIN file :
    Good(file[n]) /\ (\A m \in n + 1 .. Len(file) : Good(file[m]) => ~Same(file[n], file[m])) =>
      \E i \in DOMAIN erp : erp[i].name = file[n].name /\ (file[n].id # NoText => erp[i].id = Clean(kind, file[n]).id)

\* After two imports of a file without failures, failed ones before, between or
\* after them, all of it is there and importing it again creates nothing.  Two,
\* because a row with an id may rename what a row without one had found.  Where
\* an Odoo holds an id twice this is not so (OneObjectPerId).
ImportStands ==
  /\ [](full = 2 /\ at = 0 => AllThere)
  /\ [][full = 2 => Len(erp') = Len(erp)]_importVars
=============================================================================
