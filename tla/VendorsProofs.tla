---------------------------- MODULE VendorsProofs ----------------------------
(***************************************************************************)
(* TLAPS proofs about the protected fields of a vendor, for any fields,    *)
(* values, users, workloads and number of transactions in flight.          *)
(***************************************************************************)
EXTENDS Vendors, TLAPS

----------------------------------------------------------------------------
(* The inductive invariant. *)

Content == Value \cup {NoValue}

Write == [value : Content, via : Nat, by : User \cup {NoUser}]

Rows ==
    /\ work \in Workloads
    /\ vendor \in VendorRow
    /\ change \in [Field -> Seq(ChangeRow)]
    /\ trail \in [Field -> Seq(Write)]
    /\ req = [s \in Slot |-> req[s]]

\* Nothing is asked of a vendor that does not exist yet; the last write of a field
\* of one that exists is its value.
StoredInv ==
    IF vendor.status = "absent"
    THEN /\ \A s \in Slot : ~Busy(s)
         /\ \A f \in Field : change[f] = <<>> /\ trail[f] = <<>>
    ELSE \A f \in Field : /\ trail[f] # <<>>
                          /\ trail[f][Len(trail[f])].value = vendor.value[f]

\* A transaction in flight: what it loaded, and the request it decides.
ReqInv ==
    \A s \in Slot : Busy(s) =>
        LET q == req[s] IN
        /\ q.op \in {"update", "approve", "reject"}
        /\ q.who \in User
        /\ q.seen \in VendorRow /\ q.seen.version < work.versions
        /\ q.op = "update" =>
             /\ DOMAIN q.body \subseteq Field
             /\ \A f \in DOMAIN q.body : q.body[f] \in Content
        /\ q.op # "update" => q.field \in Field /\ q.nth \in DOMAIN change[q.field]
        /\ q.op = "approve" => change[q.field][q.nth].maker # q.who

\* The requests for a field: one is open, and each asks for something else.
RequestInv(f) ==
    /\ \A m, n \in Pending(f) : m = n
    /\ \A n \in DOMAIN change[f] : change[f][n].new # change[f][n].old

\* What was written by an approval is what the request asked for, and nobody
\* approved a request of his own; a first capture finds the field empty.
TrailInv(f) ==
    \A k \in DOMAIN trail[f] :
        LET t == trail[f][k] IN
        /\ t.via # 0 =>
             /\ k > 1
             /\ t.via \in DOMAIN change[f]
             /\ change[f][t.via].maker # t.by
             /\ change[f][t.via].new = t.value
        /\ t.via = 0 /\ k > 1 /\ <<f, 0>> \notin raced => trail[f][k - 1].value = NoValue

FieldInv(f) ==
    /\ RequestInv(f)
    /\ TrailInv(f)
    /\ \A n \in DOMAIN change[f] : <<f, n>> \notin raced => Truth(f, n)

Inv == Rows /\ StoredInv /\ ReqInv /\ \A f \in Field : FieldInv(f)

----------------------------------------------------------------------------
(* What a step does to one field. *)

LEMMA FieldKept ==
    ASSUME NEW f \in Field, FieldInv(f),
           change'[f] = change[f], trail'[f] = trail[f],
           vendor'.value[f] = vendor.value[f],
           \A n : <<f, n>> \in raced => <<f, n>> \in raced'
    PROVE  FieldInv(f)'
BY DEF FieldInv, RequestInv, TrailInv, Truth, Pending

\* A first capture, or a write of whatever a stale read took for one.
LEMMA DirectKeeps ==
    ASSUME NEW f \in Field, Rows, FieldInv(f), NEW x,
           trail[f] # <<>>, trail[f][Len(trail[f])].value = vendor.value[f],
           change'[f] = change[f], trail'[f] = Append(trail[f], Direct(x)),
           vendor'.value[f] = x,
           \A n : <<f, n>> \in raced => <<f, n>> \in raced',
           <<f, 0>> \notin raced' => vendor.value[f] = NoValue
    PROVE  FieldInv(f)'
<1>1. /\ change[f] \in Seq(ChangeRow) /\ trail[f] \in Seq(Write)
  BY DEF Rows
<1>2. /\ DOMAIN trail'[f] = DOMAIN trail[f] \cup {Len(trail[f]) + 1}
      /\ \A k \in DOMAIN trail[f] : trail'[f][k] = trail[f][k]
      /\ trail'[f][Len(trail[f]) + 1] = Direct(x)
      /\ Len(trail[f]) \in DOMAIN trail[f] /\ Len(trail[f]) \in Nat
      /\ DOMAIN trail[f] = 1 .. Len(trail[f])
      /\ DOMAIN change[f] \subseteq Nat \ {0}
  BY <1>1
<1>3. RequestInv(f)'
  BY DEF RequestInv, FieldInv, Pending
<1>4. TrailInv(f)'
  <2> SUFFICES ASSUME NEW k \in DOMAIN trail'[f]
               PROVE  LET t == trail'[f][k] IN
                      /\ t.via # 0 =>
                           /\ k > 1
                           /\ t.via \in DOMAIN change[f]
                           /\ change[f][t.via].maker # t.by
                           /\ change[f][t.via].new = t.value
                      /\ t.via = 0 /\ k > 1 /\ <<f, 0>> \notin raced' => trail'[f][k - 1].value = NoValue
    BY DEF TrailInv
  <2>1. CASE k = Len(trail[f]) + 1
    BY <1>2, <2>1 DEF Direct
  <2>2. CASE k \in DOMAIN trail[f]
    <3>1. k > 1 => k - 1 \in DOMAIN trail[f]
      BY <1>2, <2>2
    <3> QED
      BY <1>2, <2>2, <3>1 DEF FieldInv, TrailInv
  <2> QED
    BY <1>2, <2>1, <2>2
<1>5. ASSUME NEW n \in DOMAIN change[f], <<f, n>> \notin raced'
      PROVE  Truth(f, n)'
  <2>1. Truth(f, n)
    BY <1>5 DEF FieldInv
  <2>2. {k \in DOMAIN trail'[f] : trail'[f][k].via = n} = {k \in DOMAIN trail[f] : trail[f][k].via = n}
    BY <1>2, <1>5 DEF Direct
  <2>3. \A k \in DOMAIN trail[f] : trail[f][k].via = n => k - 1 \in DOMAIN trail[f]
    BY <1>2, <1>5 DEF FieldInv, TrailInv
  <2>4. \A k \in {j \in DOMAIN trail[f] : trail[f][j].via = n} :
          trail'[f][k] = trail[f][k] /\ trail'[f][k - 1] = trail[f][k - 1]
    BY <1>2, <2>3
  <2>5. change[f][n].old # NoValue
    <3>1. change[f][n] \in ChangeRow
      BY <1>1
    <3> QED
      BY <3>1, VendorsAssumption DEF ChangeRow
  <2> QED
    BY <1>5, <2>1, <2>2, <2>4, <2>5 DEF Truth
<1> QED
  BY <1>3, <1>4, <1>5 DEF FieldInv

\* The request of a change of an established value.
LEMMA RequestKeeps ==
    ASSUME NEW f \in Field, Rows, FieldInv(f), NEW c \in ChangeRow,
           Pending(f) = {}, c.state = "pending", c.new # c.old,
           change'[f] = Append(change[f], c), trail'[f] = trail[f],
           vendor'.value[f] = vendor.value[f],
           \A n : <<f, n>> \in raced => <<f, n>> \in raced',
           <<f, 0>> \notin raced' => c.old = vendor.value[f]
    PROVE  FieldInv(f)'
<1>1. change[f] \in Seq(ChangeRow)
  BY DEF Rows
<1>2. /\ DOMAIN change'[f] = DOMAIN change[f] \cup {Len(change[f]) + 1}
      /\ \A n \in DOMAIN change[f] : change'[f][n] = change[f][n]
      /\ change'[f][Len(change[f]) + 1] = c
      /\ Len(change[f]) + 1 \notin DOMAIN change[f]
      /\ DOMAIN change[f] \subseteq Nat
  BY <1>1
<1>3. RequestInv(f)'
  BY <1>2 DEF RequestInv, FieldInv, Pending
<1>4. TrailInv(f)'
  BY <1>2 DEF FieldInv, TrailInv
<1>5. ASSUME NEW n \in DOMAIN change'[f], <<f, n>> \notin raced'
      PROVE  Truth(f, n)'
  <2>1. CASE n \in DOMAIN change[f]
    BY <1>2, <1>5, <2>1 DEF FieldInv, Truth
  <2>2. CASE n = Len(change[f]) + 1
    BY <1>2, <1>5, <2>2 DEF FieldInv, TrailInv, Truth
  <2> QED
    BY <1>2, <2>1, <2>2
<1> QED
  BY <1>3, <1>4, <1>5 DEF FieldInv

\* A decision on the n-th request: it may have been decided meanwhile, and the
\* value may have changed.
LEMMA DecisionKeeps ==
    ASSUME NEW f \in Field, Rows, FieldInv(f), NEW n \in DOMAIN change[f], NEW who \in User,
           trail[f] # <<>>, trail[f][Len(trail[f])].value = vendor.value[f],
           NEW row, change'[f] = [change[f] EXCEPT ![n] = row],
           /\ row.state \in {"approved", "rejected"} /\ row.old = change[f][n].old
           /\ row.new = change[f][n].new /\ row.maker = change[f][n].maker,
           row.state = "approved" => row.maker # who,
           \/ /\ row.state = "approved"
              /\ trail'[f] = Append(trail[f], [value |-> row.new, via |-> n, by |-> who])
              /\ vendor'.value[f] = row.new
           \/ trail'[f] = trail[f] /\ vendor'.value[f] = vendor.value[f],
           \A m : <<f, m>> \in raced => <<f, m>> \in raced',
           <<f, n>> \notin raced' => change[f][n].state = "pending",
           <<f, 0>> \notin raced' /\ row.state = "approved" =>
             /\ change[f][n].state = "pending"
             /\ vendor.value[f] # row.new => trail'[f] # trail[f]
    PROVE  FieldInv(f)'
<1> DEFINE writes == trail'[f] # trail[f]
<1>1. change[f] \in Seq(ChangeRow) /\ trail[f] \in Seq(Write)
  BY DEF Rows
<1>2. /\ DOMAIN change'[f] = DOMAIN change[f]
      /\ \A m \in DOMAIN change[f] \ {n} : change'[f][m] = change[f][m]
      /\ change'[f][n] = row
      /\ DOMAIN change[f] \subseteq Nat \ {0}
  BY <1>1
<1>3. /\ \A m \in DOMAIN change[f] :
           /\ change'[f][m].old = change[f][m].old /\ change'[f][m].new = change[f][m].new
           /\ change'[f][m].maker = change[f][m].maker
      /\ change'[f][n].state = row.state
  BY <1>2
<1>4. RequestInv(f)'
  BY <1>2, <1>3 DEF RequestInv, FieldInv, Pending
<1>5. /\ DOMAIN trail[f] = 1 .. Len(trail[f]) /\ Len(trail[f]) \in Nat \ {0}
      /\ writes => /\ DOMAIN trail'[f] = DOMAIN trail[f] \cup {Len(trail[f]) + 1}
                   /\ trail'[f][Len(trail[f]) + 1] = [value |-> row.new, via |-> n, by |-> who]
      /\ \A k \in DOMAIN trail[f] : k \in DOMAIN trail'[f] /\ trail'[f][k] = trail[f][k]
      /\ ~writes => trail'[f] = trail[f]
  <2>1. /\ DOMAIN trail[f] = 1 .. Len(trail[f])
        /\ Len(trail[f]) \in Nat \ {0}
    BY <1>1
  <2>2. CASE writes
    <3> DEFINE t == [value |-> row.new, via |-> n, by |-> who]
    <3>1. trail'[f] = Append(trail[f], t)
      BY <2>2
    <3> HIDE DEF t
    <3>2. /\ DOMAIN trail'[f] = DOMAIN trail[f] \cup {Len(trail[f]) + 1}
          /\ trail'[f][Len(trail[f]) + 1] = t
          /\ \A k \in DOMAIN trail[f] : k \in DOMAIN trail'[f] /\ trail'[f][k] = trail[f][k]
      BY <1>1, <2>1, <3>1
    <3> QED
      BY <2>1, <2>2, <3>2 DEF t
  <2> QED
    BY <2>1, <2>2
<1>6. TrailInv(f)'
  <2> SUFFICES ASSUME NEW k \in DOMAIN trail'[f]
               PROVE  LET t == trail'[f][k] IN
                      /\ t.via # 0 =>
                           /\ k > 1
                           /\ t.via \in DOMAIN change'[f]
                           /\ change'[f][t.via].maker # t.by
                           /\ change'[f][t.via].new = t.value
                      /\ t.via = 0 /\ k > 1 /\ <<f, 0>> \notin raced' => trail'[f][k - 1].value = NoValue
    BY DEF TrailInv
  <2>1. CASE writes /\ k = Len(trail[f]) + 1
    BY <1>2, <1>3, <1>5, <2>1
  <2>2. CASE k \in DOMAIN trail[f]
    <3>1. k > 1 => k - 1 \in DOMAIN trail[f]
      BY <1>5, <2>2
    <3>2. /\ trail'[f][k] = trail[f][k] /\ (k > 1 => trail'[f][k - 1] = trail[f][k - 1])
      BY <1>5, <2>2, <3>1
    <3>3. TrailInv(f)
      BY DEF FieldInv
    <3> DEFINE t == trail[f][k]
    <3>4. t.via # 0 =>
             /\ k > 1 /\ t.via \in DOMAIN change[f]
             /\ change[f][t.via].maker # t.by /\ change[f][t.via].new = t.value
      BY <2>2, <3>3 DEF TrailInv
    <3>5. t.via = 0 /\ k > 1 /\ <<f, 0>> \notin raced => trail[f][k - 1].value = NoValue
      BY <2>2, <3>3 DEF TrailInv
    <3>6. DOMAIN change'[f] = DOMAIN change[f]
      BY <1>2
    <3> HIDE DEF t
    <3>7. t.via # 0 =>
             /\ k > 1 /\ t.via \in DOMAIN change'[f]
             /\ change'[f][t.via].maker # t.by /\ change'[f][t.via].new = t.value
      BY <1>3, <3>4, <3>6
    <3>8. t.via = 0 /\ k > 1 /\ <<f, 0>> \notin raced' => trail'[f][k - 1].value = NoValue
      BY <3>2, <3>5
    <3> QED
      BY <3>2, <3>7, <3>8 DEF t
  <2> QED
    BY <1>5, <2>1, <2>2
<1>7. ASSUME NEW m \in DOMAIN change[f], <<f, m>> \notin raced'
      PROVE  Truth(f, m)'
  <2>1. Truth(f, m) /\ \A k \in DOMAIN trail[f] : trail[f][k].via = m => k - 1 \in DOMAIN trail[f]
    BY <1>2, <1>5, <1>7 DEF FieldInv, TrailInv
  <2>2. CASE m # n
    <3>1. {k \in DOMAIN trail'[f] : trail'[f][k].via = m} = {k \in DOMAIN trail[f] : trail[f][k].via = m}
      BY <1>5, <2>2
    <3>2. m \in Pending(f) /\ <<f, 0>> \notin raced' => ~writes
      BY <2>2 DEF FieldInv, RequestInv, Pending
    <3>3. m \in Pending(f) /\ <<f, 0>> \notin raced' => vendor'.value[f] = vendor.value[f]
      BY <3>2
    <3>4. change'[f][m] = change[f][m]
      BY <1>2, <2>2
    <3>5. \A k \in {j \in DOMAIN trail[f] : trail[f][j].via = m} :
            trail'[f][k] = trail[f][k] /\ trail'[f][k - 1] = trail[f][k - 1]
      <4> TAKE k \in {j \in DOMAIN trail[f] : trail[f][j].via = m}
      <4>1. k \in DOMAIN trail[f] /\ k - 1 \in DOMAIN trail[f]
        BY <2>1
      <4> QED
        BY <1>5, <4>1
    <3>6. change[f][m].state = "pending" => m \in Pending(f)
      BY DEF Pending
    <3> DEFINE S == {k \in DOMAIN trail[f] : trail[f][k].via = m}
    <3>7. /\ change[f][m].state # "approved" => S = {}
          /\ <<f, 0>> \notin raced =>
               /\ change[f][m].state = "pending" => change[f][m].old = vendor.value[f]
               /\ change[f][m].state = "approved" => \E k \in S :
                    /\ S = {k} /\ trail[f][k - 1].value = change[f][m].old
                    /\ trail[f][k].value = change[f][m].new
      BY <2>1 DEF Truth
    <3> HIDE DEF S
    <3>8. /\ change'[f][m].state # "approved" => S = {}
          /\ <<f, 0>> \notin raced' =>
               /\ change'[f][m].state = "pending" => change'[f][m].old = vendor'.value[f]
               /\ change'[f][m].state = "approved" => \E k \in S :
                    /\ S = {k} /\ trail'[f][k - 1].value = change'[f][m].old
                    /\ trail'[f][k].value = change'[f][m].new
      BY <3>3, <3>4, <3>5, <3>6, <3>7 DEF S
    <3> QED
      BY <3>1, <3>8 DEF Truth, S
  <2>3. CASE m = n
    <3>1. change[f][n].state = "pending"
      BY <1>7, <2>3
    <3>2. {k \in DOMAIN trail[f] : trail[f][k].via = n} = {}
      BY <2>1, <2>3, <3>1 DEF Truth
    <3>3. <<f, 0>> \notin raced' => change[f][n].old = vendor.value[f] /\ change[f][n].new # change[f][n].old
      BY <2>1, <2>3, <3>1 DEF Truth, FieldInv, RequestInv
    <3>4. CASE row.state = "rejected"
      BY <1>3, <1>5, <2>3, <3>2, <3>4 DEF Truth
    <3>5. CASE row.state = "approved" /\ <<f, 0>> \in raced'
      BY <1>3, <2>3, <3>5 DEF Truth
    <3>6. CASE row.state = "approved" /\ <<f, 0>> \notin raced'
      <4>1. writes
        BY <3>3, <3>6
      <4>2. {k \in DOMAIN trail'[f] : trail'[f][k].via = n} = {Len(trail[f]) + 1}
        BY <1>5, <3>2, <4>1
      <4>3. /\ trail'[f][Len(trail[f]) + 1].value = change[f][n].new
            /\ trail'[f][Len(trail[f]) + 1 - 1].value = change[f][n].old
        BY <1>5, <3>3, <3>6, <4>1
      <4>4. change'[f][n].new = change[f][n].new /\ change'[f][n].old = change[f][n].old
        BY <1>3
      <4>5. change'[f][n].state = "approved"
        BY <1>3, <3>6
      <4> QED
        <5> DEFINE S == {k \in DOMAIN trail'[f] : trail'[f][k].via = n}
        <5>1. /\ change'[f][n].state # "approved" => S = {}
              /\ <<f, 0>> \notin raced' =>
                   /\ change'[f][n].state = "pending" => change'[f][n].old = vendor'.value[f]
                   /\ change'[f][n].state = "approved" => \E k \in S :
                        /\ S = {k} /\ trail'[f][k - 1].value = change'[f][n].old
                        /\ trail'[f][k].value = change'[f][n].new
          <6>1. S = {Len(trail[f]) + 1}
            BY <4>2
          <6> HIDE DEF S
          <6> QED
            BY <4>3, <4>4, <4>5, <6>1
        <5> HIDE DEF S
        <5> QED
          BY <2>3, <5>1 DEF Truth, S
    <3> QED
      BY <3>4, <3>5, <3>6
  <2> QED
    BY <2>2, <2>3
<1> QED
  BY <1>2, <1>4, <1>6, <1>7 DEF FieldInv

----------------------------------------------------------------------------
(* What the actions do to the other parts. *)

LEMMA InvInit == Init => Inv
<1> SUFFICES ASSUME Init PROVE Inv
  OBVIOUS
<1>1. Rows
  <2>1. work.versions \in Nat \ {0} /\ work \in Workloads
    BY VendorsAssumption DEF Init
  <2>2. vendor \in [status : {"absent", "active", "provisional"}, version : 1 .. work.versions,
                    value : [Field -> Content]]
    BY <2>1 DEF Init, Empty, Content
  <2>3. change \in [Field -> Seq(ChangeRow)] /\ trail \in [Field -> Seq(Write)]
    BY DEF Init
  <2> QED
    BY <2>1, <2>2, <2>3 DEF Init, Rows, VendorRow, Values, Content
<1>2. StoredInv /\ ReqInv
  BY DEF Init, StoredInv, ReqInv, Busy
<1>3. \A f \in Field : FieldInv(f)
  BY DEF Init, FieldInv, RequestInv, TrailInv, Pending
<1> QED
  BY <1>1, <1>2, <1>3 DEF Inv

\* A transaction that ends leaves the others as sound as they were: requests for
\* a field are added or change their state, nothing else.
LEMMA ReqKept ==
    ASSUME Rows, ReqInv, NEW s \in Slot, req' = [req EXCEPT ![s] = NoRequest], work' = work,
           \A f \in Field : \A n \in DOMAIN change[f] :
               n \in DOMAIN change'[f] /\ change'[f][n].maker = change[f][n].maker
    PROVE  ReqInv'
<1>1. \A t \in Slot : req'[t] # NoRequest => req'[t] = req[t] /\ req[t] # NoRequest
  BY DEF Rows
<1> QED
  BY <1>1 DEF ReqInv, Busy, VendorRow

LEMMA CreateKeeps ==
    ASSUME Inv, NEW values \in Values, Create(values)
    PROVE  Inv'
<1>1. \A f \in Field : change[f] = <<>> /\ trail'[f] = <<Direct(values[f])>> /\ change'[f] = <<>>
  BY DEF Inv, StoredInv, Create
<1>2. Rows'
  <2>1. work.versions \in Nat \ {0}
    BY VendorsAssumption DEF Inv, Rows
  <2>2. vendor' \in [status : {"absent", "active", "provisional"}, version : 1 .. work.versions,
                     value : [Field -> Content]]
    BY <2>1 DEF Create, Values, Content
  <2>3. \A f \in Field : Direct(values[f]) \in Write
    BY DEF Direct, Write, Values, Content
  <2>4. trail' \in [Field -> Seq(Write)]
    BY <2>3 DEF Create
  <2> QED
    BY <2>2, <2>4 DEF Inv, Rows, Create, VendorRow, Values, Content
<1>3. StoredInv'
  <2>1. vendor'.status # "absent" /\ \A f \in Field : vendor'.value[f] = values[f]
    BY DEF Create
  <2>2. ASSUME NEW f \in Field
        PROVE  trail'[f] # <<>> /\ Len(trail'[f]) = 1 /\ trail'[f][1].value = values[f]
    <3>1. trail'[f] = <<Direct(values[f])>>
      BY <1>1
    <3>2. Direct(values[f]).value = values[f]
      BY DEF Direct
    <3> QED
      BY <3>1, <3>2
  <2> QED
    BY <2>1, <2>2 DEF StoredInv
<1>4. ReqInv'
  BY DEF Inv, StoredInv, Create, ReqInv, Busy
<1>5. ASSUME NEW f \in Field PROVE FieldInv(f)'
  <2>1. DOMAIN change'[f] = {} /\ DOMAIN trail'[f] = {1} /\ trail'[f][1].via = 0
    <3>1. trail'[f] = <<Direct(values[f])>> /\ change'[f] = <<>>
      BY <1>1
    <3>2. Direct(values[f]).via = 0
      BY DEF Direct
    <3> QED
      BY <3>1, <3>2
  <2> QED
    BY <2>1 DEF FieldInv, RequestInv, TrailInv, Pending
<1> QED
  BY <1>2, <1>3, <1>4, <1>5 DEF Inv

\* A load adds a transaction that is sound.
LEMMA BeginKeeps ==
    ASSUME Inv, NEW s \in Slot, NEW q, Begin(s, q),
           q.op \in {"update", "approve", "reject"},
           q.who \in User, q.seen = vendor,
           q.op = "update" =>
             /\ DOMAIN q.body \subseteq Field
             /\ \A f \in DOMAIN q.body : q.body[f] \in Content,
           q.op # "update" => q.field \in Field /\ q.nth \in DOMAIN change[q.field],
           q.op = "approve" => change[q.field][q.nth].maker # q.who
    PROVE  Inv'
<1>1. Rows'
  BY DEF Inv, Rows, Begin, VendorRow, ChangeRow
<1>2. StoredInv'
  BY DEF Inv, Begin, StoredInv, Busy
<1>3. ReqInv'
  <2>1. ASSUME NEW t \in Slot, req'[t] # NoRequest
        PROVE  t # s => req[t] # NoRequest /\ req'[t] = req[t]
    BY <2>1 DEF Inv, Rows, Begin
  <2>2. req'[s] = q
    BY DEF Inv, Rows, Begin
  <2>3. vendor \in VendorRow /\ vendor.version < work.versions
    BY DEF Inv, Rows, Begin
  <2>4. vendor' = vendor /\ change' = change /\ work' = work
    BY DEF Begin
  <2>5. ASSUME NEW t \in Slot, Busy(t)'
        PROVE  LET r == req'[t] IN
               /\ r.op \in {"update", "approve", "reject"}
               /\ r.who \in User
               /\ r.seen \in VendorRow /\ r.seen.version < work.versions
               /\ r.op = "update" =>
                    /\ DOMAIN r.body \subseteq Field
                    /\ \A f \in DOMAIN r.body : r.body[f] \in Content
               /\ r.op # "update" => r.field \in Field /\ r.nth \in DOMAIN change[r.field]
               /\ r.op = "approve" => change[r.field][r.nth].maker # r.who
    <3>1. CASE t = s
      BY <2>2, <2>3, <3>1
    <3>2. CASE t # s
      <4>1. Busy(t) /\ req'[t] = req[t]
        BY <2>1, <2>5, <3>2 DEF Busy
      <4> QED
        BY <4>1 DEF Inv, ReqInv
    <3> QED
      BY <3>1, <3>2
  <2>6. VendorRow' = VendorRow
    BY <2>4 DEF VendorRow
  <2> QED
    BY <2>4, <2>5, <2>6 DEF ReqInv
<1>4. \A f \in Field : FieldInv(f)'
  BY FieldKept DEF Inv, Begin
<1> QED
  BY <1>1, <1>2, <1>3, <1>4 DEF Inv

LEMMA LoadsKeep ==
    ASSUME Inv, NEW s \in Slot, NEW who \in User
    PROVE  /\ \A F \in SUBSET work.fields, others \in BOOLEAN :
                \A body \in [F -> Content] : LoadUpdate(s, who, body, others) => Inv'
           /\ \A f \in Field : \A n \in DOMAIN change[f] :
                LoadApprove(s, who, f, n) \/ LoadReject(s, who, f, n) => Inv'
<1>1. ASSUME NEW F \in SUBSET work.fields, NEW others \in BOOLEAN, NEW body \in [F -> Content],
             LoadUpdate(s, who, body, others)
      PROVE  Inv'
  <2> DEFINE q == [op |-> "update", who |-> who, seen |-> vendor, body |-> body, others |-> others]
  <2>1. q.op = "update" /\ q.who = who /\ q.seen = vendor /\ q.body = body
    OBVIOUS
  <2>2. Begin(s, q)
    BY <1>1 DEF LoadUpdate
  <2>3. DOMAIN body \subseteq Field /\ \A f \in DOMAIN body : body[f] \in Content
    BY VendorsAssumption DEF Inv, Rows
  <2> HIDE DEF q
  <2> QED
    BY <2>1, <2>2, <2>3, BeginKeeps
<1>2. ASSUME NEW f \in Field, NEW n \in DOMAIN change[f], LoadApprove(s, who, f, n)
      PROVE  Inv'
  <2> DEFINE q == [op |-> "approve", who |-> who, seen |-> vendor, field |-> f, nth |-> n]
  <2>1. q.op = "approve" /\ q.who = who /\ q.seen = vendor /\ q.field = f /\ q.nth = n
    OBVIOUS
  <2>2. Begin(s, q) /\ change[f][n].maker # who
    BY <1>2 DEF LoadApprove, MayApprove
  <2> HIDE DEF q
  <2> QED
    BY <2>1, <2>2, BeginKeeps
<1>3. ASSUME NEW f \in Field, NEW n \in DOMAIN change[f], LoadReject(s, who, f, n)
      PROVE  Inv'
  <2> DEFINE q == [op |-> "reject", who |-> who, seen |-> vendor, field |-> f, nth |-> n]
  <2>1. q.op = "reject" /\ q.who = who /\ q.seen = vendor /\ q.field = f /\ q.nth = n
    OBVIOUS
  <2>2. Begin(s, q)
    BY <1>3 DEF LoadReject
  <2> HIDE DEF q
  <2> QED
    BY <2>1, <2>2, BeginKeeps
<1> QED
  BY <1>1, <1>2, <1>3

\* The transaction of update_vendor, field by field.
LEMMA UpdateKeeps ==
    ASSUME Inv, NEW s \in Slot, Update(s)
    PROVE  Inv'
<1> DEFINE q == req[s]
           guarded == {f \in Asked(q) : Protected(q, f)}
           direct == Asked(q) \ guarded
<1>1. /\ q.op = "update" /\ q.who \in User
      /\ q.seen \in VendorRow /\ q.seen.version < work.versions
      /\ DOMAIN q.body \subseteq Field
      /\ \A f \in DOMAIN q.body : q.body[f] \in Content
      /\ vendor.status # "absent"
  BY DEF Inv, Rows, ReqInv, StoredInv, Update
<1>2. /\ vendor \in [status : {"absent", "active", "provisional"}, version : 1 .. work.versions,
                     value : [Field -> Content]]
      /\ q.seen \in [status : {"absent", "active", "provisional"}, version : 1 .. work.versions,
                     value : [Field -> Content]]
      /\ work.versions \in Nat
  BY <1>1, VendorsAssumption DEF Inv, Rows, VendorRow, Values, Content
<1> DEFINE Request(f) == [state |-> "pending", old |-> q.seen.value[f], new |-> q.body[f], maker |-> q.who]
<1>3. ASSUME NEW f \in guarded
      PROVE  /\ f \in Field /\ Request(f) \in ChangeRow /\ Request(f).state = "pending"
             /\ Request(f).old = q.seen.value[f] /\ Request(f).new # Request(f).old
             /\ Pending(f) = {}
             /\ change'[f] = Append(change[f], Request(f)) /\ trail'[f] = trail[f]
             /\ vendor'.value[f] = vendor.value[f]
  BY <1>1, <1>2, <1>3 DEF Update, Asked, Protected, ChangeRow, NoOpenRequest, Content
<1>4. ASSUME NEW f \in direct
      PROVE  /\ f \in Field /\ q.body[f] \in Content /\ q.seen.value[f] = NoValue
             /\ change'[f] = change[f]
             /\ trail'[f] = Append(trail[f], Direct(q.body[f]))
             /\ vendor'.value[f] = q.body[f]
  BY <1>1, <1>2, <1>4 DEF Update, Asked, Protected
<1>5. ASSUME NEW f \in Field, f \notin guarded, f \notin direct
      PROVE  change'[f] = change[f] /\ trail'[f] = trail[f] /\ vendor'.value[f] = vendor.value[f]
  BY <1>2, <1>5 DEF Update
<1>6. /\ \A x : x \in raced => x \in raced'
      /\ \A f \in Asked(q) : <<f, 0>> \notin raced' => vendor.value[f] = q.seen.value[f]
  BY DEF Update
<1>7. /\ change' = [f \in Field |-> change'[f]] /\ trail' = [f \in Field |-> trail'[f]]
      /\ req' = [req EXCEPT ![s] = NoRequest] /\ work' = work
      /\ vendor'.status = vendor.status
  BY <1>2 DEF Update
<1>8. vendor' \in [status : {"absent", "active", "provisional"}, version : 1 .. work.versions,
                   value : [Field -> Content]]
  <2> DEFINE value == [f \in Field |-> IF f \in direct THEN q.body[f] ELSE vendor.value[f]]
             version == IF direct # {} \/ q.others THEN q.seen.version + 1 ELSE vendor.version
  <2>1. vendor' = [vendor EXCEPT !.value = value, !.version = version]
    BY DEF Update
  <2>2. value \in [Field -> Content]
    BY <1>2, <1>4
  <2>3. version \in 1 .. work.versions
    BY <1>1, <1>2
  <2> HIDE DEF value, version
  <2> QED
    BY <1>2, <2>1, <2>2, <2>3
<1> HIDE DEF q, guarded, direct, Request
<1>9. ASSUME NEW f \in Field
      PROVE  /\ change'[f] \in Seq(ChangeRow) /\ trail'[f] \in Seq(Write)
             /\ trail'[f] # <<>> /\ trail'[f][Len(trail'[f])].value = vendor'.value[f]
             /\ \A n \in DOMAIN change[f] : n \in DOMAIN change'[f] /\ change'[f][n] = change[f][n]
             /\ FieldInv(f)'
  <2>1. /\ change[f] \in Seq(ChangeRow) /\ trail[f] \in Seq(Write)
        /\ FieldInv(f)
    BY DEF Inv, Rows
  <2>2. trail[f] # <<>> /\ trail[f][Len(trail[f])].value = vendor.value[f]
    BY <1>1 DEF Inv, StoredInv
  <2>3. CASE f \in guarded
    <3>1. /\ Request(f) \in ChangeRow /\ Request(f).state = "pending"
          /\ Request(f).old = q.seen.value[f] /\ Request(f).new # Request(f).old
          /\ Pending(f) = {}
          /\ change'[f] = Append(change[f], Request(f)) /\ trail'[f] = trail[f]
          /\ vendor'.value[f] = vendor.value[f]
      BY <1>3, <2>3
    <3>2. <<f, 0>> \notin raced' => Request(f).old = vendor.value[f]
      BY <1>6, <2>3, <3>1 DEF guarded
    <3>3. FieldInv(f)'
      BY <1>6, <2>1, <3>1, <3>2, RequestKeeps DEF Inv
    <3> QED
      BY <2>1, <2>2, <3>1, <3>3
  <2>4. CASE f \in direct
    <3>1. /\ q.body[f] \in Content /\ q.seen.value[f] = NoValue
          /\ change'[f] = change[f]
          /\ trail'[f] = Append(trail[f], Direct(q.body[f]))
          /\ vendor'.value[f] = q.body[f]
      BY <1>4, <2>4
    <3>2. <<f, 0>> \notin raced' => vendor.value[f] = NoValue
      BY <1>6, <2>4, <3>1 DEF direct
    <3>3. FieldInv(f)'
      BY <1>6, <2>1, <2>2, <3>1, <3>2, DirectKeeps DEF Inv
    <3>4. Direct(q.body[f]) \in Write /\ Direct(q.body[f]).value = q.body[f]
      BY <3>1 DEF Direct, Write
    <3> QED
      BY <2>1, <2>2, <3>1, <3>3, <3>4
  <2>5. CASE f \notin guarded /\ f \notin direct
    <3>1. change'[f] = change[f] /\ trail'[f] = trail[f] /\ vendor'.value[f] = vendor.value[f]
      BY <1>5, <2>5
    <3> QED
      BY <1>6, <2>1, <2>2, <3>1, FieldKept
  <2> QED
    BY <2>3, <2>4, <2>5
<1>10. Rows'
  <2>1. req' = [t \in Slot |-> req'[t]]
    BY <1>7 DEF Inv, Rows
  <2>2. change' \in [Field -> Seq(ChangeRow)] /\ trail' \in [Field -> Seq(Write)]
    BY <1>7, <1>9
  <2>3. vendor' \in VendorRow'
    BY <1>7, <1>8 DEF VendorRow, Values, Content
  <2> QED
    BY <1>7, <2>1, <2>2, <2>3 DEF Inv, Rows, ChangeRow, Write
<1>11. StoredInv'
  BY <1>1, <1>7, <1>9 DEF StoredInv
<1>12. ReqInv'
  BY <1>7, <1>9, ReqKept DEF Inv
<1> QED
  BY <1>9, <1>10, <1>11, <1>12 DEF Inv

\* The transactions of approve_change and reject_change.
LEMMA DecideKeeps ==
    ASSUME Inv, NEW s \in Slot, Decide(s)
    PROVE  Inv'
<1> DEFINE q == req[s]
           g == q.field
           new == change[g][q.nth].new
           writes == q.op = "approve" /\ new # q.seen.value[g]
           state == IF q.op = "approve" THEN "approved" ELSE "rejected"
<1>1. /\ q.op \in {"approve", "reject"} /\ q.who \in User
      /\ q.seen \in VendorRow /\ q.seen.version < work.versions
      /\ g \in Field /\ q.nth \in DOMAIN change[g]
      /\ q.op = "approve" => change[g][q.nth].maker # q.who
      /\ vendor.status # "absent"
  BY DEF Inv, Rows, ReqInv, StoredInv, Decide
<1>2. /\ vendor \in [status : {"absent", "active", "provisional"}, version : 1 .. work.versions,
                     value : [Field -> Content]]
      /\ q.seen.version \in 1 .. work.versions
      /\ work.versions \in Nat
      /\ change \in [Field -> Seq(ChangeRow)] /\ trail \in [Field -> Seq(Write)]
  BY <1>1, VendorsAssumption DEF Inv, Rows, VendorRow, Values, Content
<1>3. /\ change[g] \in Seq(ChangeRow) /\ change[g][q.nth] \in ChangeRow /\ new \in Content
      /\ q.nth \in Nat \ {0}
  <2>1. change[g] \in Seq(ChangeRow)
    BY <1>1, <1>2
  <2>2. change[g][q.nth] \in ChangeRow /\ q.nth \in Nat \ {0}
    BY <1>1, <2>1
  <2> QED
    BY <2>1, <2>2 DEF ChangeRow, Content
<1>4. /\ change' = [change EXCEPT ![g] = [change[g] EXCEPT ![q.nth] = [change[g][q.nth] EXCEPT !.state = state]]]
      /\ trail' = IF writes
                  THEN [trail EXCEPT ![g] = Append(trail[g], [value |-> new, via |-> q.nth, by |-> q.who])]
                  ELSE trail
      /\ req' = [req EXCEPT ![s] = NoRequest] /\ work' = work
  BY DEF Decide
<1>5. /\ vendor' \in [status : {"absent", "active", "provisional"}, version : 1 .. work.versions,
                      value : [Field -> Content]]
      /\ vendor'.status = vendor.status
      /\ vendor'.value[g] = IF writes THEN new ELSE vendor.value[g]
      /\ \A f \in Field \ {g} : vendor'.value[f] = vendor.value[f]
  <2>1. CASE q.op = "reject"
    BY <1>2, <2>1 DEF Decide
  <2>2. CASE q.op = "approve"
    <3> DEFINE value == [vendor.value EXCEPT ![g] = IF writes THEN new ELSE vendor.value[g]]
    <3>1. vendor' = [vendor EXCEPT !.version = q.seen.version + 1, !.value = value]
      BY <2>2 DEF Decide
    <3>2. value \in [Field -> Content] /\ value[g] = (IF writes THEN new ELSE vendor.value[g])
          /\ \A f \in Field \ {g} : value[f] = vendor.value[f]
      BY <1>1, <1>2, <1>3
    <3>3. q.seen.version + 1 \in 1 .. work.versions
      BY <1>1, <1>2
    <3> HIDE DEF value, q, g, new, writes
    <3> QED
      BY <1>2, <3>1, <3>2, <3>3
  <2> QED
    BY <1>1, <2>1, <2>2
<1>6. /\ \A x : x \in raced => x \in raced'
      /\ <<g, q.nth>> \notin raced' => change[g][q.nth].state = "pending"
      /\ <<g, 0>> \notin raced' /\ q.op = "approve" =>
           change[g][q.nth].state = "pending" /\ vendor.value[g] = q.seen.value[g]
  BY <1>3 DEF Decide
<1> HIDE DEF q, g, new, writes, state
<1>7. ASSUME NEW f \in Field
      PROVE  /\ change'[f] \in Seq(ChangeRow) /\ trail'[f] \in Seq(Write)
             /\ trail'[f] # <<>> /\ trail'[f][Len(trail'[f])].value = vendor'.value[f]
             /\ \A n \in DOMAIN change[f] :
                  n \in DOMAIN change'[f] /\ change'[f][n].maker = change[f][n].maker
             /\ FieldInv(f)'
  <2>1. /\ change[f] \in Seq(ChangeRow) /\ trail[f] \in Seq(Write)
        /\ FieldInv(f)
    BY DEF Inv, Rows
  <2>2. trail[f] # <<>> /\ trail[f][Len(trail[f])].value = vendor.value[f]
    BY <1>1 DEF Inv, StoredInv
  <2>3. CASE f # g
    <3>1. change'[f] = change[f] /\ trail'[f] = trail[f] /\ vendor'.value[f] = vendor.value[f]
      BY <1>1, <1>2, <1>4, <1>5, <2>3
    <3> QED
      BY <1>6, <2>1, <2>2, <3>1, FieldKept
  <2>4. CASE f = g
    <3> DEFINE row == [change[f][q.nth] EXCEPT !.state = state]
               entry == [value |-> new, via |-> q.nth, by |-> q.who]
    <3>1. /\ change'[f] = [change[f] EXCEPT ![q.nth] = row]
          /\ trail'[f] = IF writes THEN Append(trail[f], entry) ELSE trail[f]
          /\ vendor'.value[f] = IF writes THEN new ELSE vendor.value[f]
      BY <1>1, <1>2, <1>4, <1>5, <2>4
    <3>2. /\ row \in ChangeRow /\ row.state = state /\ row.old = change[f][q.nth].old
          /\ row.new = change[f][q.nth].new /\ row.maker = change[f][q.nth].maker
          /\ entry \in Write /\ entry.value = new
      BY <1>1, <1>3, <2>4 DEF ChangeRow, Write, Content, state
    <3>3. FieldInv(f)'
      <4>1. PICK n, who : n = q.nth /\ who = q.who
        OBVIOUS
      <4>2. /\ n \in DOMAIN change[f] /\ who \in User /\ Rows
            /\ row.state = "approved" => row.maker # who
        BY <1>1, <2>4, <3>2, <4>1 DEF Inv, state
      <4>3. /\ change'[f] = [change[f] EXCEPT ![n] = row]
            /\ row.state \in {"approved", "rejected"} /\ row.old = change[f][n].old
            /\ row.new = change[f][n].new /\ row.maker = change[f][n].maker
        BY <3>1, <3>2, <4>1 DEF state
      <4>4. \/ /\ row.state = "approved"
               /\ trail'[f] = Append(trail[f], [value |-> row.new, via |-> n, by |-> who])
               /\ vendor'.value[f] = row.new
            \/ trail'[f] = trail[f] /\ vendor'.value[f] = vendor.value[f]
        BY <2>4, <3>1, <3>2, <4>1 DEF writes, new, state
      <4>5. /\ \A m : <<f, m>> \in raced => <<f, m>> \in raced'
            /\ <<f, n>> \notin raced' => change[f][n].state = "pending"
            /\ <<f, 0>> \notin raced' /\ row.state = "approved" =>
                 /\ change[f][n].state = "pending"
                 /\ vendor.value[f] # row.new => trail'[f] # trail[f]
        <5>1. row.state = "approved" => q.op = "approve" /\ row.new = new
          BY <1>1, <2>4, <3>2 DEF state, new
        <5>2. Append(trail[f], entry) # trail[f]
          BY <2>1, <3>2
        <5> QED
          BY <1>6, <2>4, <3>1, <4>1, <5>1, <5>2 DEF writes
      <4> HIDE DEF row, entry
      <4> QED
        BY <2>1, <2>2, <4>2, <4>3, <4>4, <4>5, DecisionKeeps
    <3> HIDE DEF row, entry
    <3>4. \A n \in DOMAIN change[f] : n \in DOMAIN change'[f] /\ change'[f][n].maker = change[f][n].maker
      BY <2>1, <3>1, <3>2
    <3>5. change'[f] \in Seq(ChangeRow)
      BY <1>1, <2>1, <2>4, <3>1, <3>2
    <3>6. trail'[f] \in Seq(Write) /\ trail'[f] # <<>> /\ trail'[f][Len(trail'[f])].value = vendor'.value[f]
      <4>1. CASE trail'[f] = Append(trail[f], entry) /\ vendor'.value[f] = new
        BY <2>1, <3>2, <4>1
      <4>2. CASE trail'[f] = trail[f] /\ vendor'.value[f] = vendor.value[f]
        BY <2>1, <2>2, <4>2
      <4> QED
        BY <3>1, <4>1, <4>2 DEF writes
    <3> QED
      BY <3>3, <3>4, <3>5, <3>6
  <2> QED
    BY <2>3, <2>4
<1>8. Rows'
  <2>1. req' = [t \in Slot |-> req'[t]]
    BY <1>4 DEF Inv, Rows
  <2>2. change' \in [Field -> Seq(ChangeRow)] /\ trail' \in [Field -> Seq(Write)]
    <3>1. change' = [f \in Field |-> change'[f]] /\ trail' = [f \in Field |-> trail'[f]]
      BY <1>2, <1>4
    <3> QED
      BY <1>7, <3>1
  <2>3. vendor' \in VendorRow'
    BY <1>4, <1>5 DEF VendorRow, Values, Content
  <2> QED
    BY <1>4, <2>1, <2>2, <2>3 DEF Inv, Rows, ChangeRow, Write
<1>9. StoredInv'
  BY <1>1, <1>5, <1>7 DEF StoredInv
<1>10. ReqInv'
  BY <1>4, <1>7, ReqKept DEF Inv
<1> QED
  BY <1>7, <1>8, <1>9, <1>10 DEF Inv

LEMMA RollbackKeeps ==
    ASSUME Inv, NEW s \in Slot, Rollback(s)
    PROVE  Inv'
<1>1. Rows' /\ StoredInv'
  BY DEF Inv, Rows, StoredInv, Rollback, Busy, VendorRow, ChangeRow
<1>2. ReqInv'
  BY ReqKept DEF Inv, Rollback
<1>3. \A f \in Field : FieldInv(f)'
  BY FieldKept DEF Inv, Rollback
<1> QED
  BY <1>1, <1>2, <1>3 DEF Inv

LEMMA InvNext == Inv /\ [Next]_vars => Inv'
<1> SUFFICES ASSUME Inv, [Next]_vars PROVE Inv'
  OBVIOUS
<1>1. CASE \E values \in Values : Create(values)
  BY <1>1, CreateKeeps
<1>2. ASSUME NEW s \in Slot, NEW who \in User,
             \/ \E F \in SUBSET work.fields, others \in BOOLEAN :
                  \E body \in [F -> Value \cup {NoValue}] : LoadUpdate(s, who, body, others)
             \/ \E f \in Field : \E n \in DOMAIN change[f] :
                  LoadApprove(s, who, f, n) \/ LoadReject(s, who, f, n)
      PROVE  Inv'
  BY <1>2, LoadsKeep DEF Content
<1>3. ASSUME NEW s \in Slot, Update(s) \/ Decide(s) \/ Rollback(s)
      PROVE  Inv'
  BY <1>3, UpdateKeeps, DecideKeeps, RollbackKeeps
<1>4. CASE UNCHANGED vars
  <2>1. Rows' /\ StoredInv' /\ ReqInv'
    BY <1>4 DEF vars, Inv, Rows, StoredInv, ReqInv, Busy, VendorRow, ChangeRow
  <2>2. \A f \in Field : FieldInv(f)'
    BY <1>4, FieldKept DEF vars, Inv
  <2> QED
    BY <2>1, <2>2 DEF Inv
<1> QED
  BY <1>1, <1>2, <1>3, <1>4 DEF Next

----------------------------------------------------------------------------
(* The theorems. *)

LEMMA InvHolds == Spec => []Inv
BY InvInit, InvNext, PTL DEF Spec

\* Two people (update_vendor, approve_change): the rows are well formed, and an
\* established value is replaced only by a value that one user requested and
\* another approved, unless the field was written from a stale read.
THEOREM TwoPeopleCorrect == Spec => []TwoPeople
<1>1. ASSUME Inv
      PROVE  TwoPeople
  <2>1. TypeOK
    BY <1>1 DEF Inv, Rows, TypeOK
  <2>2. ASSUME NEW f \in Field, <<f, 0>> \notin raced, NEW k \in DOMAIN trail[f], Unseen(f, k)
        PROVE  FALSE
    <3>1. trail[f][k].via # 0 =>
             /\ trail[f][k].via \in DOMAIN change[f]
             /\ change[f][trail[f][k].via].maker # trail[f][k].by
             /\ change[f][trail[f][k].via].new = trail[f][k].value
      BY <1>1 DEF Inv, FieldInv, TrailInv
    <3>2. trail[f][k].via = 0 => trail[f][k - 1].value = NoValue
      BY <1>1, <2>2 DEF Inv, FieldInv, TrailInv, Unseen
    <3> QED
      BY <2>2, <3>1, <3>2 DEF Unseen
  <2> QED
    BY <2>1, <2>2 DEF TwoPeople
<1> QED
  BY <1>1, InvHolds, PTL

\* The request tells the truth (update_vendor, approve_change, reject_change): a
\* pending one names the value the vendor has, an approved one was written once
\* over the value it names, and no other one was written, unless the request or
\* its field was written from a stale read.
THEOREM RequestTellsTruthCorrect == Spec => []RequestTellsTruth
<1>1. Inv => RequestTellsTruth
  BY DEF Inv, FieldInv, RequestTellsTruth
<1> QED
  BY <1>1, InvHolds, PTL
=============================================================================
