---------------------------- MODULE Registration ----------------------------
(***************************************************************************)
(* Three services that make one row per request in the same way: a user    *)
(* (accounts, RegisterSerializer), a customer profile and a merchant       *)
(* profile (CustomerService.register, MerchantService.register).  Each     *)
(* unique value of the new row is looked for with a query of its own, then *)
(* the row is inserted; a unique index refuses a second row with the same  *)
(* value.  A profile is made by a user that is logged in and has the role  *)
(* for it.                                                                 *)
(*                                                                         *)
(* Requests that the serializers refuse (check digits, age, password) ask  *)
(* the database nothing and are left out.                                  *)
(***************************************************************************)
EXTENDS Naturals, Sequences, FiniteSets, WebServer

CONSTANTS
  Requests,   \* registrations, each sent once
  Kind,       \* what a request asks for: "user", "customer" or "merchant"
  Email,      \* user: the e-mail address, in lower case and without spaces
  Sent,       \* user: the address as it was sent
  Role,       \* user: the role it asks for
  Owner,      \* profile: the request that registered the user who sends it
  Document,   \* profile: the digits of the CPF or CNPJ
  NoRequest   \* not a request

Users == {r \in Requests : Kind[r] = "user"}
Profiles == Requests \ Users

ASSUME RegistrationAssumption ==
  /\ NoRequest \notin Requests
  /\ Kind \in [Requests -> {"user", "customer", "merchant"}]
  /\ Role \in [Users -> {"customer", "merchant_owner"}]
  /\ Owner \in [Profiles -> Users]
  /\ Users \subseteq DOMAIN Email /\ Profiles \subseteq DOMAIN Document
  /\ Users \subseteq DOMAIN Sent
  /\ \A r, s \in Users : Sent[r] = Email[s] => Email[r] = Sent[r]

VARIABLES
  rows,       \* requests whose row was inserted
  answer,     \* 201; 403; 409 or 400; or 500, what a database error becomes
  regPc,      \* worker: the number of the value to look for, one more to insert
  regJob,     \* its request
  before      \* history: the rows there were when a request arrived

regVars == <<rows, answer, regPc, regJob, before>>

\* The values with a unique index in the row of a request.
UserRow(r) == {<<"users", "email", Email[r]>>}
CustomerRow(r) ==
  {<<"customers", "user", Owner[r]>>, <<"customers", "cpf", Document[r]>>}
MerchantRow(r) ==
  {<<"merchants", "user", Owner[r]>>, <<"merchants", "cnpj", Document[r]>>}

ValuesOf(r) ==
  CASE Kind[r] = "user" -> UserRow(r)
    [] Kind[r] = "customer" -> CustomerRow(r)
    [] Kind[r] = "merchant" -> MerchantRow(r)

\* The values that are looked for, in the order of the queries.  The serializer's
\* UniqueValidator asks for the address as it was sent, validate_email for the other.
UserLookups(r) == << <<"users", "email", Sent[r]>>, <<"users", "email", Email[r]>> >>
CustomerLookups(r) ==
  << <<"customers", "user", Owner[r]>>, <<"customers", "cpf", Document[r]>> >>
MerchantLookups(r) ==
  << <<"merchants", "user", Owner[r]>>, <<"merchants", "cnpj", Document[r]>> >>

Lookups(r) ==
  CASE Kind[r] = "user" -> UserLookups(r)
    [] Kind[r] = "customer" -> CustomerLookups(r)
    [] Kind[r] = "merchant" -> MerchantLookups(r)

\* is_customer and is_merchant_owner.
MayRegister(r) ==
  Role[Owner[r]] = IF Kind[r] = "customer" THEN "customer" ELSE "merchant_owner"

Taken(values) == \E r \in rows : ValuesOf(r) \cap values # {}

RegistrationTypeOK ==
  /\ rows \subseteq Requests
  /\ answer \in [Requests -> {"none", "created", "forbidden", "conflict", "error"}]
  /\ regPc \in [Workers -> Nat]
  /\ regJob \in [Workers -> Requests \cup {NoRequest}]
  /\ before \in [Requests -> SUBSET rows]
  /\ \A w \in Workers :
       /\ regPc[w] = 0 <=> regJob[w] = NoRequest
       /\ regJob[w] # NoRequest => regPc[w] \in 1..(Len(Lookups(regJob[w])) + 1)

RegistrationInit ==
  /\ rows = {}
  /\ answer = [r \in Requests |-> "none"]
  /\ regPc = [w \in Workers |-> 0]
  /\ regJob = [w \in Workers |-> NoRequest]
  /\ before = [r \in Requests |-> {}]

-----------------------------------------------------------------------------
Answer(w, what) ==
  /\ answer' = [answer EXCEPT ![regJob[w]] = what]
  /\ regPc' = [regPc EXCEPT ![w] = 0]
  /\ regJob' = [regJob EXCEPT ![w] = NoRequest]

Waiting(w, r) ==
  /\ regPc[w] = 0
  /\ answer[r] = "none"
  /\ \A v \in Workers : regJob[v] # r

Begin(w, r) ==
  /\ regPc' = [regPc EXCEPT ![w] = 1]
  /\ regJob' = [regJob EXCEPT ![w] = r]
  /\ before' = [before EXCEPT ![r] = rows]
  /\ UNCHANGED <<rows, answer>>

\* RegisterView: anybody may send it.
RegisterUser(w, r) ==
  /\ Waiting(w, r)
  /\ r \in Users
  /\ Begin(w, r)

\* CustomerCreateView, MerchantCreateView: the user of the request exists; with
\* another role the request is refused at once.
RegisterProfile(w, r) ==
  /\ Waiting(w, r)
  /\ r \in Profiles
  /\ Owner[r] \in rows
  /\ IF MayRegister(r)
     THEN Begin(w, r)
     ELSE /\ answer' = [answer EXCEPT ![r] = "forbidden"]
          /\ UNCHANGED <<rows, regPc, regJob, before>>

\* Mutation: only the first value is looked for.
LookForFirst(w) ==
  LET r == regJob[w]
  IN  /\ r # NoRequest
      /\ regPc[w] <= Len(Lookups(r))
      /\ IF Taken({Lookups(r)[1]})
         THEN Answer(w, "conflict")
         ELSE /\ regPc' = [regPc EXCEPT ![w] = @ + 1]
              /\ UNCHANGED <<answer, regJob>>
      /\ UNCHANGED <<rows, before>>

\* The next value: the address in both forms; or the user's profile, then the CPF or
\* CNPJ.
LookFor(w) ==
  LET r == regJob[w]
  IN  /\ regJob[w] # NoRequest
      /\ regPc[w] <= Len(Lookups(r))
      /\ IF Taken({Lookups(r)[regPc[w]]})
         THEN Answer(w, "conflict")
         ELSE /\ regPc' = [regPc EXCEPT ![w] = @ + 1]
              /\ UNCHANGED <<answer, regJob>>
      /\ UNCHANGED <<rows, before>>

\* The insert, which the unique indexes may refuse.
InsertRow(w) ==
  LET r == regJob[w]
  IN  /\ regJob[w] # NoRequest
      /\ regPc[w] > Len(Lookups(r))
      /\ IF Taken(ValuesOf(r))
         THEN Answer(w, "error") /\ UNCHANGED rows
         ELSE Answer(w, "created") /\ rows' = rows \cup {r}
      /\ UNCHANGED before

RegistrationNext ==
  \E w \in Workers :
    \/ \E r \in Requests : RegisterUser(w, r) \/ RegisterProfile(w, r)
    \/ LookFor(w)
    \/ InsertRow(w)
-----------------------------------------------------------------------------
\* Who asks for something that was taken when the request arrived is told so;
\* a database error is only for one who was overtaken between the queries and the
\* insert.  And nobody loses to nobody: whoever is refused has a value that a row
\* has.
RefusedForCause ==
  \A r \in Requests :
    /\ answer[r] \in {"conflict", "error"} => Taken(ValuesOf(r))
    /\ answer[r] = "error" =>
         \A s \in before[r] : ValuesOf(s) \cap ValuesOf(r) = {}
=============================================================================
