-------------------------- MODULE ForwardersProofs --------------------------
(***************************************************************************)
(* The safety of the forwarders, for any requests, accesses, selector      *)
(* bits, windows and mappings.                                             *)
(***************************************************************************)
EXTENDS Forwarders, TLAPS

(* What the accesses of testandset_v2 are assumed to be: one at a time, as *)
(* one port remembers the way back of all of them.  Of the memory behind   *)
(* it nothing is assumed.                                                  *)
OneAtATime == Serial \/ "testandset" \notin Kinds

-----------------------------------------------------------------------------
(* The definitions that depend on the kind, as functions of it. *)
ViewK(k, r) == IF k \in {"testandset", "router_untimed"} THEN ViewOf[r] ELSE "input"

RouteK(k, a) ==
    CASE k = "demux"          -> Select(a)
      [] k = "rw_splitter"    -> Direction(a)
      [] k = "router_untimed" -> Decode(a)
      [] OTHER                -> 0

RemapK(k, a) ==
    CASE k = "remapper"       -> Moved(a)
      [] k = "router_untimed" -> Translate(a, Mappings[Decode(a)])
      [] OTHER                -> a.addr

(***************************************************************************)
(* The inductive invariant is a conjunction of predicates on a state       *)
(* [k = kind, l = denied_output, n = input_needs_retry, v = pending_itf,   *)
(* f = in_flight_map, ac = access, ad = addr, c = ctl, u = up, d = down,   *)
(* w = owes, m = mem].                                                     *)
(***************************************************************************)
Entries == [req : Reqs \cup {SetReq}, out : Outputs]
Access  == [addr : Nat, write : BOOLEAN]

Types(k, l, n, v, f, ac, ad, c, u, d, w, m) ==
    /\ k \in Kinds
    /\ l \in Outputs \cup {NoOut}
    /\ n \in BOOLEAN /\ v \in Views
    /\ f \in [Reqs -> Views \cup {NoView}]
    /\ ac \in [Reqs -> Access]
    /\ ad \in [Reqs -> Int]
    /\ c \in [pc : {"idle", "resp", "retry", "retried"}, view : Views]
    /\ u \in [Reqs -> MasterStates]
    /\ d \in Seq(Entries)
    /\ w \subseteq Outputs
    /\ m \in [lock : {"free", "taken"}, holders : 0 .. 2]

(* Where a request is, and with which address. *)
Places(k, ac, ad, u, d) ==
    \A r \in Reqs :
        /\ u[r] # "error"
        /\ u[r] = "granted" <=> \E i \in DOMAIN d : d[i].req = r
        /\ \A i, j \in DOMAIN d : d[i].req = r /\ d[j].req = r => i = j
        /\ \A i \in DOMAIN d : d[i].req = r => /\ d[i].out = RouteK(k, ac[r])
                                               /\ ad[r] = RemapK(k, ac[r])
        /\ u[r] = "denied" => ad[r] = ac[r].addr

(* The retry() that r is owed is being passed on: to its own port, or to   *)
(* the port retry_muxed calls before it.                                   *)
Awaits(k, r, c) ==
    \/ c.pc = "retry" /\ ViewK(k, r) = c.view
    \/ /\ k = "router_untimed" /\ c.pc \in {"retry", "retried"}
       /\ c.view = "input" /\ ViewK(k, r) = "passthrough"

Passes(k, l, n, out) ==
    /\ k \in {"demux", "rw_splitter"} => l = out
    /\ k = "remapper" => n

(* A refused request whose retry() is not under way is owed one, by the    *)
(* output it goes to, and the component will pass it on.                   *)
Owed(k, l, n, ac, c, u, w) ==
    \A r \in Reqs : u[r] = "denied" /\ ~Awaits(k, r, c) =>
        RouteK(k, ac[r]) \in w /\ Passes(k, l, n, RouteK(k, ac[r]))

OneDenied(k, u) ==
    \A p, q \in Reqs : u[p] = "denied" /\ u[q] = "denied" /\ ViewK(k, p) = ViewK(k, q) => p = q

(* The port remembered is the one the request came by. *)
Ways(k, v, f, u) ==
    \A r \in Reqs :
        /\ k = "router_untimed" /\ u[r] = "granted" => f[r] = ViewK(k, r)
        /\ k = "testandset" /\ u[r] # "idle" =>
              v = ViewK(k, r) /\ \A q \in Reqs : u[q] # "idle" => q = r

(* Only testandset_v2 has a store of its own under way. *)
Stores(k, d) == k # "testandset" => \A i \in DOMAIN d : d[i].req # SetReq

State(k, l, n, v, f, ac, ad, c, u, d, w, m) ==
    /\ Types(k, l, n, v, f, ac, ad, c, u, d, w, m)
    /\ Places(k, ac, ad, u, d)
    /\ Owed(k, l, n, ac, c, u, w)
    /\ OneDenied(k, u)
    /\ Ways(k, v, f, u)
    /\ Stores(k, d)

IInv == State(kind, denied_output, input_needs_retry, pending_itf, in_flight_map,
              access, addr, ctl, up, down, owes, mem)

-----------------------------------------------------------------------------
LEMMA KindDefs ==
    ASSUME NEW a, NEW r
    PROVE  Route(a) = RouteK(kind, a) /\ Remap(a) = RemapK(kind, a) /\ View(r) = ViewK(kind, r)
  BY DEF Route, RouteK, Remap, RemapK, View, ViewK

LEMMA ViewType ==
    ASSUME NEW k, NEW r \in Reqs
    PROVE  ViewK(k, r) \in Views
  BY ForwardersAssumption DEF ViewK, Views

LEMMA SelectType ==
    ASSUME NEW a \in Access
    PROVE  Select(a) \in Outputs
  <1>1. PICK p, q, x : p = 2 ^ Offset /\ q = 2 ^ Width /\ x = a.addr
    OBVIOUS
  <1>2. p \in Nat \ {0} /\ q \in Nat \ {0} /\ x \in Nat
    BY <1>1, ForwardersAssumption DEF Access
  <1>3. x \div p \in Int
    BY <1>2
  <1>4. PICK y : y = x \div p
    OBVIOUS
  <1>5. y % q \in 0 .. (q - 1)
    BY <1>2, <1>3, <1>4
  <1> QED BY <1>1, <1>4, <1>5 DEF Select, Outputs

LEMMA SmallOutputs == 0 \in Outputs /\ 1 \in Outputs /\ NoOut \notin Outputs
  <1>1. PICK q : q = 2 ^ Width
    OBVIOUS
  <1>2. q \in Nat /\ q > 1
    BY <1>1, ForwardersAssumption
  <1> QED BY <1>1, <1>2 DEF Outputs, NoOut

LEMMA RouteType ==
    ASSUME NEW k, NEW a \in Access
    PROVE  /\ RouteK(k, a) \in Outputs \cup {NoOut}
           /\ RouteK(k, a) # NoOut => RouteK(k, a) \in Outputs /\ RemapK(k, a) \in Int
  <1>1. Decode(a) \in Outputs \cup {NoOut}
    <2>1. Found(a) \subseteq Outputs
      BY DEF Found
    <2> QED BY <2>1 DEF Decode
  <1>2. RouteK(k, a) \in Outputs \cup {NoOut}
    BY <1>1, SelectType, SmallOutputs DEF RouteK, Direction
  <1>3. ASSUME NEW out \in Outputs PROVE Translate(a, Mappings[out]) \in Int
    <2>1. /\ Mappings[out] \in [base : Nat, size : Nat, remove_offset : Nat, add_offset : Nat]
          /\ a.addr \in Nat
      BY ForwardersAssumption DEF Access
    <2> QED BY <2>1 DEF Translate
  <1>4. a.addr \in Int /\ Moved(a) \in Int
    BY ForwardersAssumption DEF Access, Moved
  <1>5. RouteK(k, a) # NoOut => RemapK(k, a) \in Int
    <2>1. CASE k = "router_untimed"
      <3>1. RouteK(k, a) = Decode(a) /\ RemapK(k, a) = Translate(a, Mappings[Decode(a)])
        BY <2>1 DEF RouteK, RemapK
      <3> QED BY <3>1, <1>1, <1>3
    <2>2. CASE k # "router_untimed"
      BY <2>2, <1>4 DEF RemapK
    <2> QED BY <2>1, <2>2
  <1> QED BY <1>2, <1>5

(* What the invariant says in the words of the module. *)
LEMMA Consequences == IInv => TypeOK /\ ForwardedFaithfully
  <1> SUFFICES ASSUME IInv PROVE TypeOK /\ ForwardedFaithfully
    OBVIOUS
  <1>1. TypeOK
    BY DEF IInv, State, Types, TypeOK, Entries, Access
  <1>3. /\ Places(kind, access, addr, up, down)
        /\ Owed(kind, denied_output, input_needs_retry, access, ctl, up, owes)
    BY DEF IInv, State
  <1>4. \A r \in Reqs : ctl = Idle => ~Awaits(kind, r, ctl)
    BY DEF Awaits, Idle
  <1>5. ASSUME NEW out, Passes(kind, denied_output, input_needs_retry, out)
        PROVE  PassesRetry(out)
    BY <1>5 DEF Passes, PassesRetry
  <1>6. ASSUME NEW r \in Reqs, up[r] = "denied", ctl = Idle
        PROVE  Route(access[r]) \in owes /\ PassesRetry(Route(access[r]))
    BY <1>3, <1>4, <1>5, <1>6, KindDefs DEF Owed
  <1>7. RightWayBack
    BY <1>3 DEF Places, RightWayBack
  <1>8. ASSUME NEW r \in Reqs
        PROVE  /\ up[r] = "granted" <=> Forwarded(r) # {}
               /\ \A i, j \in Forwarded(r) : i = j
               /\ \A i \in Forwarded(r) : /\ down[i].out = Route(access[r])
                                          /\ addr[r] = Remap(access[r])
               /\ up[r] = "denied" => addr[r] = access[r].addr
    BY <1>3, KindDefs DEF Places, Forwarded
  <1> QED BY <1>1, <1>6, <1>7, <1>8 DEF ForwardedFaithfully

-----------------------------------------------------------------------------
(* The accesses the slaves have to do, as a sequence. *)
LEMMA AppendFacts ==
    ASSUME NEW d \in Seq(Entries), NEW e \in Entries, NEW x, x = Append(d, e)
    PROVE  /\ x \in Seq(Entries)
           /\ \A i \in DOMAIN d : i \in DOMAIN x /\ x[i] = d[i]
           /\ \A i \in DOMAIN x : i \in DOMAIN d \/ (i = Len(d) + 1 /\ x[i] = e)
           /\ Len(d) + 1 \in DOMAIN x /\ x[Len(d) + 1] = e /\ Len(d) + 1 \notin DOMAIN d
  OBVIOUS

LEMMA RemoveFacts ==
    ASSUME NEW d \in Seq(Entries), NEW i \in DOMAIN d, NEW x, x = RemoveAt(d, i)
    PROVE  /\ x \in Seq(Entries) /\ Len(x) = Len(d) - 1
           /\ \A j \in DOMAIN x : \/ j < i /\ j \in DOMAIN d /\ x[j] = d[j]
                                  \/ j >= i /\ j + 1 \in DOMAIN d /\ x[j] = d[j + 1]
           /\ \A j \in DOMAIN d : \/ j = i
                                  \/ j < i /\ j \in DOMAIN x /\ x[j] = d[j]
                                  \/ j > i /\ j - 1 \in DOMAIN x /\ x[j - 1] = d[j]
  <1>1. PICK n : n = Len(d)
    OBVIOUS
  <1>2. n \in Nat /\ i \in 1 .. n /\ DOMAIN d = 1 .. n
    BY <1>1
  <1>3. PICK p, s : p = SubSeq(d, 1, i - 1) /\ s = SubSeq(d, i + 1, n)
    OBVIOUS
  <1>4. /\ p \in Seq(Entries) /\ Len(p) = i - 1
        /\ \A j \in 1 .. (i - 1) : p[j] = d[j]
    BY <1>1, <1>2, <1>3
  <1>5. /\ s \in Seq(Entries) /\ Len(s) = n - i
        /\ \A j \in 1 .. (n - i) : s[j] = d[j + i]
    BY <1>1, <1>2, <1>3
  <1>6. x = p \o s
    BY <1>1, <1>3 DEF RemoveAt
  <1>7. /\ x \in Seq(Entries) /\ Len(x) = Len(p) + Len(s)
        /\ \A j \in 1 .. (Len(p) + Len(s)) :
              x[j] = IF j <= Len(p) THEN p[j] ELSE s[j - Len(p)]
    BY <1>4, <1>5, <1>6
  <1>8. Len(x) = n - 1 /\ DOMAIN x = 1 .. (n - 1)
    BY <1>2, <1>4, <1>5, <1>7
  <1>9. ASSUME NEW j \in 1 .. (n - 1)
        PROVE  x[j] = IF j < i THEN d[j] ELSE d[j + 1]
    <2>1. x[j] = IF j <= i - 1 THEN p[j] ELSE s[j - (i - 1)]
      BY <1>2, <1>4, <1>5, <1>7
    <2>2. CASE j < i
      BY <2>1, <2>2, <1>2, <1>4
    <2>3. CASE ~(j < i)
      <3>1. j - (i - 1) \in 1 .. (n - i) /\ (j - (i - 1)) + i = j + 1
        BY <2>3, <1>2
      <3>2. s[j - (i - 1)] = d[(j - (i - 1)) + i]
        BY <3>1, <1>5
      <3> QED BY <2>1, <2>3, <3>1, <3>2, <1>2
    <2> QED BY <2>2, <2>3
  <1>10. ASSUME NEW j \in DOMAIN x
         PROVE  \/ j < i /\ j \in DOMAIN d /\ x[j] = d[j]
                \/ j >= i /\ j + 1 \in DOMAIN d /\ x[j] = d[j + 1]
    BY <1>2, <1>8, <1>9
  <1>11. ASSUME NEW j \in DOMAIN d
         PROVE  \/ j = i
                \/ j < i /\ j \in DOMAIN x /\ x[j] = d[j]
                \/ j > i /\ j - 1 \in DOMAIN x /\ x[j - 1] = d[j]
    <2>1. CASE j < i
      BY <2>1, <1>2, <1>8, <1>9
    <2>2. CASE j > i
      <3>1. j - 1 \in 1 .. (n - 1) /\ ~(j - 1 < i) /\ (j - 1) + 1 = j
        BY <2>2, <1>2
      <3>2. x[j - 1] = d[(j - 1) + 1]
        BY <3>1, <1>9
      <3> QED BY <2>2, <3>1, <3>2, <1>8
    <2> QED BY <2>1, <2>2, <1>2
  <1> QED BY <1>1, <1>7, <1>8, <1>10, <1>11

-----------------------------------------------------------------------------
SetEntry == [req |-> SetReq, out |-> 0]

(* The store of set() belongs to no request. *)
LEMMA SetPlaces ==
    ASSUME NEW k, NEW ac, NEW ad, NEW u, NEW d \in Seq(Entries),
           Places(k, ac, ad, u, d)
    PROVE  Places(k, ac, ad, u, Append(d, SetEntry))
  <1>1. PICK x : x = Append(d, SetEntry)
    OBVIOUS
  <1>2. SetEntry \in Entries /\ SetEntry.req = SetReq /\ SetReq \notin Reqs
    BY SmallOutputs, ForwardersAssumption DEF SetEntry, Entries
  <1>3. /\ \A i \in DOMAIN d : i \in DOMAIN x /\ x[i] = d[i]
        /\ \A i \in DOMAIN x : i \in DOMAIN d \/ (i = Len(d) + 1 /\ x[i] = SetEntry)
    BY <1>1, <1>2, AppendFacts
  <1>4. ASSUME NEW r \in Reqs
        PROVE  /\ \A i \in DOMAIN x : x[i].req = r => i \in DOMAIN d /\ x[i] = d[i]
               /\ \A i \in DOMAIN d : i \in DOMAIN x /\ x[i] = d[i]
    BY <1>2, <1>3
  <1>5. Places(k, ac, ad, u, x)
    BY <1>4 DEF Places
  <1> QED BY <1>1, <1>5

(* An access is complete, and set() follows it where it does. *)
LEMMA CompletesFacts ==
    ASSUME IInv, NEW r \in Reqs, NEW a \in Access, NEW ok \in BOOLEAN,
           NEW d \in Seq(Entries), Completes(r, a, ok, View(r), d), Stores(kind, d)
    PROVE  /\ down' = d \/ down' = Append(d, SetEntry)
           /\ down' \in Seq(Entries)
           /\ owes \subseteq owes' /\ owes' \subseteq Outputs
           /\ mem' \in [lock : {"free", "taken"}, holders : 0 .. 2]
           /\ Stores(kind, down')
  <1>1. mem \in [lock : {"free", "taken"}, holders : 0 .. 2] /\ owes \subseteq Outputs
    BY DEF IInv, State, Types
  <1>2. PICK takes \in BOOLEAN : takes <=> TakesLock(View(r), a, ok)
    OBVIOUS
  <1>3. PICK m : m = IF kind = "testandset" /\ ok THEN Execute(r, a) ELSE mem
    OBVIOUS
  <1>4. PICK st \in (IF takes THEN SetAnswers(d) ELSE {IO_REQ_DONE}) :
            /\ mem' = IF takes /\ st = IO_REQ_DONE THEN Taken(m) ELSE m
            /\ down' = IF takes /\ st = IO_REQ_GRANTED THEN Append(d, SetEntry) ELSE d
            /\ owes' = IF takes /\ st = IO_REQ_DENIED THEN owes \cup {0} ELSE owes
    BY <1>2, <1>3 DEF Completes, SetEntry
  <1>5. SetEntry \in Entries
    BY SmallOutputs DEF SetEntry, Entries
  <1>6. down' \in Seq(Entries) /\ (down' = d \/ down' = Append(d, SetEntry))
    BY <1>4, <1>5
  <1>7. owes \subseteq owes' /\ owes' \subseteq Outputs
    BY <1>1, <1>4, SmallOutputs
  <1>8. m \in [lock : {"free", "taken"}, holders : 0 .. 2]
    <2>1. Execute(r, a) \in [lock : {"free", "taken"}, holders : 0 .. 2]
      BY <1>1 DEF Execute
    <2> QED BY <2>1, <1>1, <1>3
  <1>9. mem' \in [lock : {"free", "taken"}, holders : 0 .. 2]
    BY <1>4, <1>8 DEF Taken
  <1>10. kind # "testandset" => down' = d
    BY <1>2, <1>4 DEF TakesLock
  <1> QED BY <1>6, <1>7, <1>9, <1>10 DEF Stores

-----------------------------------------------------------------------------
LEMMA Unfold ==
    IInv => /\ Types(kind, denied_output, input_needs_retry, pending_itf, in_flight_map,
                     access, addr, ctl, up, down, owes, mem)
            /\ Places(kind, access, addr, up, down)
            /\ Owed(kind, denied_output, input_needs_retry, access, ctl, up, owes)
            /\ OneDenied(kind, up)
            /\ Ways(kind, pending_itf, in_flight_map, up)
            /\ Stores(kind, down)
  BY DEF IInv, State

LEMMA Fold ==
    ASSUME Types(kind', denied_output', input_needs_retry', pending_itf', in_flight_map',
                 access', addr', ctl', up', down', owes', mem'),
           Places(kind', access', addr', up', down'),
           Owed(kind', denied_output', input_needs_retry', access', ctl', up', owes'),
           OneDenied(kind', up'),
           Ways(kind', pending_itf', in_flight_map', up'),
           Stores(kind', down')
    PROVE  IInv'
  BY DEF IInv, State, Types, Places, Owed, OneDenied, Ways, Stores, RouteK, RemapK, ViewK,
         Awaits, Passes

(* A master's call: a fresh request, or the re-issue inside retry(). *)
Issued(r) ==
    \/ ctl.pc \in {"idle", "resp", "retried"} /\ ctl' = ctl /\ up[r] = "idle"
    \/ /\ ctl.pc = "retry" /\ ctl.view = View(r) /\ up[r] = "denied"
       /\ ctl' = [ctl EXCEPT !.pc = "retried"]

(* The request handlers, as one. *)
InputStep(r, a, st, ok) ==
    /\ kind' = kind /\ up' = [up EXCEPT ![r] = AfterReq(st)]
    /\ pending_itf' = IF kind = "testandset" THEN View(r) ELSE pending_itf
    /\ in_flight_map' = IF st = IO_REQ_GRANTED /\ kind = "router_untimed"
                        THEN [in_flight_map EXCEPT ![r] = View(r)] ELSE in_flight_map
    /\ denied_output' = IF st = IO_REQ_DENIED /\ kind \in {"demux", "rw_splitter"}
                        THEN Route(a) ELSE denied_output
    /\ kind # "remapper" => input_needs_retry' = input_needs_retry
    /\ kind = "remapper" => input_needs_retry' = NeedsRetry(st)
    /\ st # IO_REQ_DONE => Route(a) # NoOut
    /\ Output(r, a, Route(a), Remap(a), st, ok)

LEMMA InputForm ==
    ASSUME NEW r \in Reqs, NEW a \in Access, NEW st \in IoReqStatus, NEW ok \in BOOLEAN,
           InputReq(r, a, st, ok)
    PROVE  InputStep(r, a, st, ok)
  <1>1. kind' = kind /\ up' = [up EXCEPT ![r] = AfterReq(st)]
    BY DEF InputReq
  <1>2. Select(a) # NoOut /\ Direction(a) # NoOut /\ 0 # NoOut
    BY SelectType, SmallOutputs DEF Direction
  <1>3. CASE DemuxReq(r, a, st, ok)
    <2>1. kind = "demux" /\ Route(a) = Select(a) /\ Remap(a) = a.addr
      BY <1>3 DEF DemuxReq, Route, Remap
    <2> QED BY <1>1, <1>2, <1>3, <2>1 DEF DemuxReq, Latched, InputStep
  <1>4. CASE SplitterReq(r, a, st, ok)
    <2>1. kind = "rw_splitter" /\ Route(a) = Direction(a) /\ Remap(a) = a.addr
      BY <1>4 DEF SplitterReq, Route, Remap
    <2> QED BY <1>1, <1>2, <1>4, <2>1 DEF SplitterReq, Latched, InputStep
  <1>5. CASE RemapperReq(r, a, st, ok)
    <2>1. kind = "remapper" /\ Route(a) = 0 /\ Remap(a) = Moved(a)
      BY <1>5 DEF RemapperReq, Route, Remap
    <2> QED BY <1>1, <1>2, <1>5, <2>1 DEF RemapperReq, InputStep
  <1>6. CASE TestandsetReq(r, a, st, ok)
    <2>1. kind = "testandset" /\ Route(a) = 0 /\ Remap(a) = a.addr
      BY <1>6 DEF TestandsetReq, Route, Remap
    <2> QED BY <1>1, <1>2, <1>6, <2>1 DEF TestandsetReq, InputStep
  <1>7. CASE RouterReq(r, a, st, ok)
    <2>1. /\ kind = "router_untimed" /\ Route(a) = Decode(a)
          /\ Remap(a) = Translate(a, Mappings[Decode(a)])
      BY <1>7 DEF RouterReq, Route, Remap
    <2> QED BY <1>1, <1>7, <2>1 DEF RouterReq, latches, InputStep
  <1> QED BY <1>3, <1>4, <1>5, <1>6, <1>7 DEF InputReq

(* The state of the ports after input_req, whatever the slave answers. *)
LEMMA InputPorts ==
    ASSUME IInv, NEW r \in Reqs, NEW a \in Access, NEW st \in IoReqStatus,
           NEW ok \in BOOLEAN, InputStep(r, a, st, ok), Issued(r),
           \A q \in Reqs \ {r} : View(q) = View(r) => up[q] # "denied",
           kind = "testandset" => \A q \in Reqs \ {r} : up[q] = "idle",
           NEW b \in Access, st # IO_REQ_DONE => b = a,
           access' = [access EXCEPT ![r] = b],
           owes \subseteq owes'
    PROVE  /\ kind' = kind
           /\ Owed(kind', denied_output', input_needs_retry', access', ctl', up', owes')
           /\ OneDenied(kind', up')
           /\ Ways(kind', pending_itf', in_flight_map', up')
           /\ up' \in [Reqs -> MasterStates] /\ ctl' \in [pc : {"idle", "resp", "retry", "retried"}, view : Views]
           /\ access' \in [Reqs -> Access]
           /\ denied_output' \in Outputs \cup {NoOut} /\ input_needs_retry' \in BOOLEAN
           /\ pending_itf' \in Views /\ in_flight_map' \in [Reqs -> Views \cup {NoView}]
  <1>0. PICK k, out, s : k = kind /\ out = RouteK(kind, a) /\ s = AfterReq(st)
    OBVIOUS
  <1>1. /\ kind \in Kinds /\ up \in [Reqs -> MasterStates] /\ access \in [Reqs -> Access]
        /\ ctl \in [pc : {"idle", "resp", "retry", "retried"}, view : Views]
        /\ denied_output \in Outputs \cup {NoOut} /\ input_needs_retry \in BOOLEAN
        /\ pending_itf \in Views /\ in_flight_map \in [Reqs -> Views \cup {NoView}]
    BY Unfold DEF Types
  <1>2. /\ Owed(k, denied_output, input_needs_retry, access, ctl, up, owes)
        /\ Ways(k, pending_itf, in_flight_map, up) /\ OneDenied(k, up)
    BY <1>0, Unfold
  <1>3. kind' = kind /\ up' = [up EXCEPT ![r] = s]
    BY <1>0 DEF InputStep
  <1>4. /\ s \in {"idle", "granted", "denied"}
        /\ s = "denied" <=> st = IO_REQ_DENIED
        /\ s = "granted" <=> st = IO_REQ_GRANTED
    BY <1>0 DEF AfterReq, IoReqStatus, IO_REQ_DONE, IO_REQ_GRANTED, IO_REQ_DENIED
  <1>5. /\ up'[r] = s /\ access'[r] = b
        /\ \A q \in Reqs \ {r} : up'[q] = up[q] /\ access'[q] = access[q]
    BY <1>1, <1>3
  <1>6. up' \in [Reqs -> MasterStates] /\ access' \in [Reqs -> Access]
    BY <1>1, <1>3, <1>4 DEF MasterStates
  <1>7. ctl' \in [pc : {"idle", "resp", "retry", "retried"}, view : Views]
    BY <1>1 DEF Issued
  <1>8. \A q \in Reqs : View(q) = ViewK(k, q)
    BY <1>0, KindDefs
  <1>9. \A q \in Reqs \ {r} : ViewK(k, q) = ViewK(k, r) => up[q] # "denied"
    BY <1>8
  <1>10. pending_itf' = IF k = "testandset" THEN ViewK(k, r) ELSE pending_itf
    BY <1>0, <1>8 DEF InputStep
  <1>11. /\ st = IO_REQ_GRANTED /\ k = "router_untimed" =>
               in_flight_map' = [in_flight_map EXCEPT ![r] = ViewK(k, r)]
         /\ ~(st = IO_REQ_GRANTED /\ k = "router_untimed") => in_flight_map' = in_flight_map
    BY <1>0, <1>8 DEF InputStep, IO_REQ_DONE, IO_REQ_GRANTED, IO_REQ_DENIED
  <1>12. pending_itf' \in Views /\ in_flight_map' \in [Reqs -> Views \cup {NoView}]
    <2>1. ViewK(k, r) \in Views
      BY ViewType
    <2> QED BY <2>1, <1>1, <1>10, <1>11
  <1>13. /\ st # IO_REQ_DENIED => UNCHANGED <<denied_output, input_needs_retry>>
         /\ st = IO_REQ_DENIED =>
               /\ out # NoOut /\ out \in owes'
               /\ denied_output' = IF k \in {"demux", "rw_splitter"} THEN out ELSE denied_output
               /\ input_needs_retry' = (input_needs_retry \/ k = "remapper")
    <2>1. Route(a) = out
      BY <1>0, KindDefs
    <2>2. st # IO_REQ_DENIED => UNCHANGED <<denied_output, input_needs_retry>>
      <3> SUFFICES ASSUME st # IO_REQ_DENIED
                   PROVE  denied_output' = denied_output /\ input_needs_retry' = input_needs_retry
        OBVIOUS
      <3>1. denied_output' = denied_output
        BY DEF InputStep
      <3>2. NeedsRetry(st) = input_needs_retry
        BY <1>1 DEF NeedsRetry
      <3>3. input_needs_retry' = input_needs_retry
        BY <3>2 DEF InputStep
      <3> QED BY <3>1, <3>3
    <2>3. st = IO_REQ_DENIED => out # NoOut /\ out \in owes'
      BY <2>1 DEF InputStep, Output, IO_REQ_DONE, IO_REQ_GRANTED, IO_REQ_DENIED
    <2>4. st = IO_REQ_DENIED =>
             denied_output' = IF k \in {"demux", "rw_splitter"} THEN out ELSE denied_output
      BY <2>1, <1>0 DEF InputStep
    <2>5. st = IO_REQ_DENIED => input_needs_retry' = (input_needs_retry \/ k = "remapper")
      <3> SUFFICES ASSUME st = IO_REQ_DENIED
                   PROVE  input_needs_retry' = (input_needs_retry \/ k = "remapper")
        OBVIOUS
      <3>1. CASE k = "remapper"
        <4>1. input_needs_retry' = NeedsRetry(st) /\ NeedsRetry(st)
          BY <3>1, <1>0 DEF InputStep, NeedsRetry
        <4> QED BY <4>1, <3>1 DEF NeedsRetry
      <3>2. CASE k # "remapper"
        <4>1. input_needs_retry' = input_needs_retry
          BY <3>2, <1>0 DEF InputStep
        <4> QED BY <4>1, <3>2, <1>1
      <3> QED BY <3>1, <3>2
    <2> QED BY <2>2, <2>3, <2>4, <2>5
  <1>14. denied_output' \in Outputs \cup {NoOut} /\ input_needs_retry' \in BOOLEAN
    <2>1. out \in Outputs \cup {NoOut}
      BY <1>0, RouteType
    <2>2. denied_output' \in Outputs \cup {NoOut}
      BY <2>1, <1>1, <1>13
    <2>3. input_needs_retry' \in BOOLEAN
      BY <1>1, <1>13
    <2> QED BY <2>2, <2>3
  <1>15. ASSUME NEW q \in Reqs \ {r}, up[q] = "denied", ~Awaits(k, q, ctl')
         PROVE  ~Awaits(k, q, ctl)
    <2>1. ViewK(k, q) # ViewK(k, r)
      BY <1>9, <1>15
    <2>2. CASE ctl' = ctl
      BY <1>15, <2>2
    <2>3. CASE ctl.pc = "retry" /\ ctl.view = ViewK(k, r) /\ ctl' = [ctl EXCEPT !.pc = "retried"]
      <3>1. ctl'.pc = "retried" /\ ctl'.view = ctl.view
        BY <2>3, <1>1
      <3> QED BY <1>15, <2>1, <2>3, <3>1 DEF Awaits
    <2> QED BY <2>2, <2>3, <1>8 DEF Issued
  <1>16. Owed(k, denied_output', input_needs_retry', access', ctl', up', owes')
    <2> SUFFICES ASSUME NEW q \in Reqs, up'[q] = "denied", ~Awaits(k, q, ctl')
                 PROVE  /\ RouteK(k, access'[q]) \in owes'
                        /\ Passes(k, denied_output', input_needs_retry', RouteK(k, access'[q]))
      BY DEF Owed
    <2>1. CASE q = r
      <3>1. st = IO_REQ_DENIED /\ b = a
        BY <2>1, <1>4, <1>5 DEF IO_REQ_DONE, IO_REQ_DENIED
      <3>2. RouteK(k, access'[q]) = out
        BY <2>1, <3>1, <1>0, <1>5
      <3> QED BY <3>1, <3>2, <1>13 DEF Passes
    <2>2. CASE q # r
      <3>1. up[q] = "denied" /\ access'[q] = access[q]
        BY <2>2, <1>5
      <3>2. /\ RouteK(k, access[q]) \in owes
            /\ Passes(k, denied_output, input_needs_retry, RouteK(k, access[q]))
        BY <2>2, <3>1, <1>2, <1>15 DEF Owed
      <3>3. k \notin {"demux", "rw_splitter"}
        <4>1. ViewK(k, q) # ViewK(k, r)
          BY <2>2, <3>1, <1>9
        <4> QED BY <4>1 DEF ViewK
      <3>4. k = "remapper" => (input_needs_retry => input_needs_retry')
        BY <1>13
      <3> QED BY <3>1, <3>2, <3>3, <3>4 DEF Passes
    <2> QED BY <2>1, <2>2
  <1>17. OneDenied(k, up')
    BY <1>2, <1>5, <1>9 DEF OneDenied
  <1>18. Ways(k, pending_itf', in_flight_map', up')
    <2> SUFFICES ASSUME NEW q \in Reqs
                 PROVE  /\ k = "router_untimed" /\ up'[q] = "granted" => in_flight_map'[q] = ViewK(k, q)
                        /\ k = "testandset" /\ up'[q] # "idle" =>
                             pending_itf' = ViewK(k, q) /\ \A p \in Reqs : up'[p] # "idle" => p = q
      BY DEF Ways
    <2>1. k = "router_untimed" /\ up'[q] = "granted" => in_flight_map'[q] = ViewK(k, q)
      <3>1. CASE q = r
        BY <3>1, <1>1, <1>4, <1>5, <1>11
      <3>2. CASE q # r
        BY <3>2, <1>1, <1>2, <1>5, <1>11 DEF Ways
      <3> QED BY <3>1, <3>2
    <2>2. k = "testandset" /\ up'[q] # "idle" =>
             pending_itf' = ViewK(k, q) /\ \A p \in Reqs : up'[p] # "idle" => p = q
      BY <1>0, <1>5, <1>10
    <2> QED BY <2>1, <2>2
  <1> QED BY <1>0, <1>3, <1>6, <1>7, <1>12, <1>14, <1>16, <1>17, <1>18

(* A master's request. *)
LEMMA InputInvariant ==
    ASSUME IInv, NEW r \in Reqs, NEW a \in Access, NEW st \in IoReqStatus,
           NEW ok \in BOOLEAN, InputStep(r, a, st, ok), Issued(r),
           \A q \in Reqs \ {r} : View(q) = View(r) => up[q] # "denied",
           kind = "testandset" => \A q \in Reqs \ {r} : up[q] = "idle",
           NEW b \in Access, st # IO_REQ_DONE => b = a,
           access' = [access EXCEPT ![r] = b]
    PROVE  IInv'
  <1>0. PICK k, out : k = kind /\ out = RouteK(kind, a)
    OBVIOUS
  <1>1. /\ kind \in Kinds /\ up \in [Reqs -> MasterStates] /\ access \in [Reqs -> Access]
        /\ addr \in [Reqs -> Int] /\ down \in Seq(Entries) /\ owes \subseteq Outputs
        /\ mem \in [lock : {"free", "taken"}, holders : 0 .. 2]
    BY Unfold DEF Types
  <1>2. Places(k, access, addr, up, down) /\ Stores(k, down)
    BY <1>0, Unfold
  <1>3. up[r] \in {"idle", "denied"}
    BY DEF Issued
  <1>4. Route(a) = out /\ Remap(a) = RemapK(k, a)
    BY <1>0, KindDefs
  <1>5. access'[r] = b /\ \A q \in Reqs \ {r} : access'[q] = access[q]
    BY <1>1
  <1>6. kind' = kind /\ up' = [up EXCEPT ![r] = AfterReq(st)]
    BY DEF InputStep
  <1>7. \A q \in Reqs \ {r} : up'[q] = up[q]
    BY <1>1, <1>6
  <1>8. \A i \in DOMAIN down : down[i].req # r
    BY <1>2, <1>3 DEF Places
  <1>9. ASSUME owes \subseteq owes', owes' \subseteq Outputs, addr' \in [Reqs -> Int],
               down' \in Seq(Entries), mem' \in [lock : {"free", "taken"}, holders : 0 .. 2],
               Places(k, access', addr', up', down'), Stores(k, down')
        PROVE  IInv'
    <2>1. /\ kind' = kind
          /\ Owed(kind', denied_output', input_needs_retry', access', ctl', up', owes')
          /\ OneDenied(kind', up')
          /\ Ways(kind', pending_itf', in_flight_map', up')
          /\ up' \in [Reqs -> MasterStates] /\ ctl' \in [pc : {"idle", "resp", "retry", "retried"}, view : Views]
          /\ access' \in [Reqs -> Access]
          /\ denied_output' \in Outputs \cup {NoOut} /\ input_needs_retry' \in BOOLEAN
          /\ pending_itf' \in Views /\ in_flight_map' \in [Reqs -> Views \cup {NoView}]
      BY <1>9, InputPorts
    <2>2. Types(kind', denied_output', input_needs_retry', pending_itf', in_flight_map',
                access', addr', ctl', up', down', owes', mem')
      BY <2>1, <1>1, <1>9 DEF Types
    <2> QED BY <2>1, <2>2, <1>0, <1>9, Fold
  <1>10. CASE st = IO_REQ_DONE
    <2>1. Completes(r, a, ok, View(r), down) /\ addr' = [addr EXCEPT ![r] = 0]
      BY <1>10 DEF InputStep, Output, IO_REQ_DONE, IO_REQ_GRANTED, IO_REQ_DENIED
    <2>3. /\ down' = down \/ down' = Append(down, SetEntry)
          /\ down' \in Seq(Entries)
          /\ owes \subseteq owes' /\ owes' \subseteq Outputs
          /\ mem' \in [lock : {"free", "taken"}, holders : 0 .. 2]
          /\ Stores(kind, down')
      BY <2>1, <1>0, <1>1, <1>2, CompletesFacts
    <2>4. up'[r] = "idle"
      BY <1>1, <1>6, <1>10 DEF AfterReq, IO_REQ_DONE, IO_REQ_GRANTED, IO_REQ_DENIED
    <2>5. addr' \in [Reqs -> Int] /\ \A q \in Reqs \ {r} : addr'[q] = addr[q]
      BY <2>1, <1>1
    <2>6. Places(k, access', addr', up', down)
      <3> SUFFICES ASSUME NEW q \in Reqs
                   PROVE  /\ up'[q] # "error"
                          /\ up'[q] = "granted" <=> \E i \in DOMAIN down : down[i].req = q
                          /\ \A i, j \in DOMAIN down : down[i].req = q /\ down[j].req = q => i = j
                          /\ \A i \in DOMAIN down : down[i].req = q =>
                                /\ down[i].out = RouteK(k, access'[q])
                                /\ addr'[q] = RemapK(k, access'[q])
                          /\ up'[q] = "denied" => addr'[q] = access'[q].addr
        BY DEF Places
      <3>1. CASE q = r
        BY <3>1, <2>4, <1>8
      <3>2. CASE q # r
        BY <3>2, <2>5, <1>2, <1>5, <1>7 DEF Places
      <3> QED BY <3>1, <3>2
    <2>7. Places(k, access', addr', up', down')
      <3>1. Places(k, access', addr', up', Append(down, SetEntry))
        BY <2>6, <1>1, SetPlaces
      <3> QED BY <2>3, <2>6, <3>1
    <2> QED BY <2>3, <2>5, <2>7, <1>0, <1>9
  <1>11. CASE st = IO_REQ_GRANTED
    <2>1. /\ down' = Append(down, [req |-> r, out |-> out]) /\ addr' = [addr EXCEPT ![r] = RemapK(k, a)]
          /\ owes' = owes /\ mem' = mem /\ out # NoOut
      BY <1>4, <1>11 DEF InputStep, Output, IO_REQ_DONE, IO_REQ_GRANTED, IO_REQ_DENIED
    <2>2. out \in Outputs /\ RemapK(k, a) \in Int
      BY <2>1, <1>0, RouteType
    <2>3. PICK e : e = [req |-> r, out |-> out]
      OBVIOUS
    <2>4. e \in Entries /\ e.req = r /\ e.out = out /\ r # SetReq
      BY <2>2, <2>3, ForwardersAssumption DEF Entries
    <2>5. /\ down' \in Seq(Entries)
          /\ \A i \in DOMAIN down : i \in DOMAIN down' /\ down'[i] = down[i]
          /\ \A i \in DOMAIN down' : i \in DOMAIN down \/ (i = Len(down) + 1 /\ down'[i] = e)
          /\ Len(down) + 1 \in DOMAIN down' /\ down'[Len(down) + 1] = e
          /\ Len(down) + 1 \notin DOMAIN down
      BY <2>1, <2>3, <2>4, <1>1, AppendFacts
    <2>6. /\ addr' \in [Reqs -> Int] /\ addr'[r] = RemapK(k, a)
          /\ \A q \in Reqs \ {r} : addr'[q] = addr[q]
      BY <2>1, <2>2, <1>1
    <2>7. up'[r] = "granted" /\ b = a
      BY <1>1, <1>6, <1>11 DEF AfterReq, IO_REQ_GRANTED, IO_REQ_DONE, IO_REQ_DENIED
    <2>8. Places(k, access', addr', up', down')
      <3> SUFFICES ASSUME NEW q \in Reqs
                   PROVE  /\ up'[q] # "error"
                          /\ up'[q] = "granted" <=> \E i \in DOMAIN down' : down'[i].req = q
                          /\ \A i, j \in DOMAIN down' : down'[i].req = q /\ down'[j].req = q => i = j
                          /\ \A i \in DOMAIN down' : down'[i].req = q =>
                                /\ down'[i].out = RouteK(k, access'[q])
                                /\ addr'[q] = RemapK(k, access'[q])
                          /\ up'[q] = "denied" => addr'[q] = access'[q].addr
        BY DEF Places
      <3>1. CASE q = r
        <4>1. \A i \in DOMAIN down' : down'[i].req = r => i = Len(down) + 1
          BY <2>5, <1>8
        <4> QED BY <3>1, <4>1, <2>4, <2>5, <2>6, <2>7, <1>0, <1>5
      <3>2. CASE q # r
        <4>1. \A i \in DOMAIN down' : down'[i].req = q => i \in DOMAIN down
          BY <3>2, <2>4, <2>5
        <4> QED BY <3>2, <4>1, <2>5, <2>6, <1>2, <1>5, <1>7 DEF Places
      <3> QED BY <3>1, <3>2
    <2>9. Stores(k, down')
      <3>1. CASE k # "testandset"
        BY <3>1, <2>1, <2>4, <2>5, <1>2 DEF Stores
      <3> QED BY <3>1 DEF Stores
    <2> QED BY <2>1, <2>5, <2>6, <2>8, <2>9, <1>1, <1>9
  <1>12. CASE st = IO_REQ_DENIED
    <2>1. /\ owes' = owes \cup {out} /\ addr' = [addr EXCEPT ![r] = a.addr]
          /\ down' = down /\ mem' = mem /\ out # NoOut
      BY <1>4, <1>12 DEF InputStep, Output, Refused, IO_REQ_DONE, IO_REQ_GRANTED, IO_REQ_DENIED
    <2>2. out \in Outputs /\ a.addr \in Int
      BY <2>1, <1>0, RouteType DEF Access
    <2>3. /\ addr' \in [Reqs -> Int] /\ addr'[r] = a.addr
          /\ \A q \in Reqs \ {r} : addr'[q] = addr[q]
      BY <2>1, <2>2, <1>1
    <2>4. up'[r] = "denied" /\ b = a
      BY <1>1, <1>6, <1>12 DEF AfterReq, IO_REQ_DENIED, IO_REQ_GRANTED, IO_REQ_DONE
    <2>5. Places(k, access', addr', up', down)
      <3> SUFFICES ASSUME NEW q \in Reqs
                   PROVE  /\ up'[q] # "error"
                          /\ up'[q] = "granted" <=> \E i \in DOMAIN down : down[i].req = q
                          /\ \A i, j \in DOMAIN down : down[i].req = q /\ down[j].req = q => i = j
                          /\ \A i \in DOMAIN down : down[i].req = q =>
                                /\ down[i].out = RouteK(k, access'[q])
                                /\ addr'[q] = RemapK(k, access'[q])
                          /\ up'[q] = "denied" => addr'[q] = access'[q].addr
        BY DEF Places
      <3>1. CASE q = r
        BY <3>1, <2>3, <2>4, <1>5, <1>8
      <3>2. CASE q # r
        BY <3>2, <2>3, <1>2, <1>5, <1>7 DEF Places
      <3> QED BY <3>1, <3>2
    <2> QED BY <2>1, <2>2, <2>3, <2>5, <1>1, <1>2, <1>9
  <1> QED BY <1>10, <1>11, <1>12 DEF IoReqStatus

LEMMA MasterReqInvariant ==
    ASSUME IInv, OneAtATime, NEW r \in Reqs, NEW a \in Accesses[kind], NEW st \in IoReqStatus,
           NEW ok \in BOOLEAN, MasterReq(r, a, st, ok)
    PROVE  IInv'
  <1>1. kind \in Kinds /\ a \in Access
    <2>1. kind \in Kinds
      BY Unfold DEF Types
    <2>2. Accesses[kind] \subseteq Access
      BY <2>1, ForwardersAssumption DEF Access
    <2> QED BY <2>1, <2>2
  <1>2. PICK b : b = IF st = IO_REQ_DONE THEN NoAccess ELSE a
    OBVIOUS
  <1>3. b \in Access /\ (st # IO_REQ_DONE => b = a)
    BY <1>1, <1>2 DEF NoAccess, Access
  <1>4. /\ st \in Answers(down) /\ InputReq(r, a, st, ok) /\ access' = [access EXCEPT ![r] = b]
        /\ ctl.pc \in {"idle", "resp", "retried"} /\ ctl' = ctl /\ MayIssue(r)
    BY <1>2 DEF MasterReq
  <1>5. /\ up[r] = "idle"
        /\ \A q \in Reqs \ {r} : View(q) = View(r) => up[q] # "denied"
        /\ kind = "testandset" => \A q \in Reqs \ {r} : up[q] = "idle"
    <2>1. CASE kind = "testandset"
      <3>1. Serial
        BY <2>1, <1>1 DEF OneAtATime
      <3> QED BY <2>1, <3>1, <1>4 DEF MayIssue
    <2>2. CASE kind # "testandset"
      BY <2>2, <1>4 DEF MayIssue, NoneDenied, OnPort
    <2> QED BY <2>1, <2>2
  <1>6. Issued(r)
    BY <1>4, <1>5 DEF Issued
  <1>7. InputStep(r, a, st, ok)
    BY <1>1, <1>4, InputForm
  <1> QED BY <1>1, <1>3, <1>4, <1>5, <1>6, <1>7, InputInvariant

LEMMA MasterReissueInvariant ==
    ASSUME IInv, OneAtATime, NEW r \in Reqs, NEW st \in IoReqStatus,
           NEW ok \in BOOLEAN, MasterReissue(r, st, ok)
    PROVE  IInv'
  <1>1. /\ access \in [Reqs -> Access] /\ addr \in [Reqs -> Int]
        /\ Places(kind, access, addr, up, down) /\ OneDenied(kind, up)
        /\ Ways(kind, pending_itf, in_flight_map, up)
    BY Unfold DEF Types
  <1>2. /\ ctl.pc = "retry" /\ ctl.view = View(r) /\ up[r] = "denied"
        /\ st \in Answers(down) /\ InputReq(r, [access[r] EXCEPT !.addr = addr[r]], st, ok)
        /\ access' = IF st = IO_REQ_DONE THEN [access EXCEPT ![r] = NoAccess] ELSE access
        /\ ctl' = [ctl EXCEPT !.pc = "retried"]
    BY DEF MasterReissue
  <1>3. PICK a : a = access[r]
    OBVIOUS
  <1>4. a \in Access
    BY <1>1, <1>3
  <1>5. addr[r] = a.addr
    BY <1>1, <1>2, <1>3 DEF Places
  <1>6. [a EXCEPT !.addr = a.addr] = a
    BY <1>4 DEF Access
  <1>7. InputReq(r, a, st, ok)
    BY <1>2, <1>3, <1>5, <1>6
  <1>8. PICK b : b = IF st = IO_REQ_DONE THEN NoAccess ELSE a
    OBVIOUS
  <1>9. b \in Access /\ (st # IO_REQ_DONE => b = a)
    BY <1>4, <1>8 DEF NoAccess, Access
  <1>10. access' = [access EXCEPT ![r] = b]
    <2>1. [access EXCEPT ![r] = a] = access
      BY <1>1, <1>3
    <2> QED BY <2>1, <1>2, <1>8
  <1>11. \A q \in Reqs : View(q) = ViewK(kind, q)
    BY KindDefs
  <1>12. /\ \A q \in Reqs \ {r} : View(q) = View(r) => up[q] # "denied"
         /\ kind = "testandset" => \A q \in Reqs \ {r} : up[q] = "idle"
    BY <1>1, <1>2, <1>11 DEF OneDenied, Ways
  <1>13. Issued(r)
    BY <1>2 DEF Issued
  <1>14. InputStep(r, a, st, ok)
    BY <1>4, <1>7, InputForm
  <1> QED BY <1>4, <1>9, <1>10, <1>12, <1>13, <1>14, InputInvariant

-----------------------------------------------------------------------------
(* What is left of the places when the i-th access is removed. *)
LEMMA RemovePlaces ==
    ASSUME NEW k, NEW ac, NEW ad, NEW u, NEW d \in Seq(Entries), NEW i \in DOMAIN d,
           NEW x, x = RemoveAt(d, i), NEW q \in Reqs, d[i].req # q,
           Places(k, ac, ad, u, d)
    PROVE  /\ u[q] = "granted" <=> \E j \in DOMAIN x : x[j].req = q
           /\ \A j, l \in DOMAIN x : x[j].req = q /\ x[l].req = q => j = l
           /\ \A j \in DOMAIN x : x[j].req = q => /\ x[j].out = RouteK(k, ac[q])
                                                  /\ ad[q] = RemapK(k, ac[q])
  <1>1. DOMAIN d \subseteq Int /\ DOMAIN x \subseteq Int /\ i \in Int
    <2>1. x \in Seq(Entries)
      BY RemoveFacts
    <2> QED BY <2>1
  <1>2. ASSUME NEW j \in DOMAIN x
        PROVE  \E l \in DOMAIN d : x[j] = d[l] /\ l = IF j < i THEN j ELSE j + 1
    <2>1. \/ j < i /\ j \in DOMAIN d /\ x[j] = d[j]
          \/ j >= i /\ j + 1 \in DOMAIN d /\ x[j] = d[j + 1]
      BY RemoveFacts
    <2>2. CASE j < i
      BY <2>1, <2>2, <1>1
    <2>3. CASE ~(j < i)
      <3>1. j + 1 \in DOMAIN d /\ x[j] = d[j + 1]
        BY <2>1, <2>3
      <3> QED BY <2>3, <3>1
    <2> QED BY <2>2, <2>3
  <1>3. ASSUME NEW j \in DOMAIN d, j # i
        PROVE  \E l \in DOMAIN x : x[l] = d[j]
    <2>1. \/ j \in DOMAIN x /\ x[j] = d[j]
          \/ j - 1 \in DOMAIN x /\ x[j - 1] = d[j]
      BY <1>3, RemoveFacts
    <2> QED BY <2>1
  <1>4. u[q] = "granted" <=> \E j \in DOMAIN x : x[j].req = q
    BY <1>2, <1>3 DEF Places
  <1>5. ASSUME NEW j \in DOMAIN x, NEW l \in DOMAIN x, x[j].req = q, x[l].req = q
        PROVE  j = l
    <2>1. PICK j1 \in DOMAIN d : x[j] = d[j1] /\ j1 = IF j < i THEN j ELSE j + 1
      BY <1>2
    <2>2. PICK l1 \in DOMAIN d : x[l] = d[l1] /\ l1 = IF l < i THEN l ELSE l + 1
      BY <1>2
    <2>3. j1 = l1
      BY <2>1, <2>2, <1>5 DEF Places
    <2> QED BY <2>1, <2>2, <2>3, <1>1
  <1>6. ASSUME NEW j \in DOMAIN x, x[j].req = q
        PROVE  x[j].out = RouteK(k, ac[q]) /\ ad[q] = RemapK(k, ac[q])
    BY <1>2, <1>6 DEF Places
  <1> QED BY <1>4, <1>5, <1>6

LEMMA OutputRespInvariant ==
    ASSUME IInv, NEW i \in DOMAIN down, NEW ok \in BOOLEAN, OutputResp(i, ok)
    PROVE  IInv'
  <1>0. PICK k, r, d : k = kind /\ r = down[i].req /\ d = RemoveAt(down, i)
    OBVIOUS
  <1>1. /\ Types(k, denied_output, input_needs_retry, pending_itf, in_flight_map,
                 access, addr, ctl, up, down, owes, mem)
        /\ Places(k, access, addr, up, down)
        /\ Owed(k, denied_output, input_needs_retry, access, ctl, up, owes)
        /\ OneDenied(k, up) /\ Ways(k, pending_itf, in_flight_map, up) /\ Stores(k, down)
    BY <1>0, Unfold
  <1>2. /\ kind \in Kinds /\ up \in [Reqs -> MasterStates] /\ access \in [Reqs -> Access]
        /\ addr \in [Reqs -> Int] /\ down \in Seq(Entries)
        /\ in_flight_map \in [Reqs -> Views \cup {NoView}]
    BY <1>0, <1>1 DEF Types
  <1>3. /\ ctl = Idle /\ r # SetReq
        /\ Completes(r, access[r], ok, pending_itf, d)
        /\ up' = [up EXCEPT ![r] = IF WayBack(r) = View(r) THEN AfterResp(@) ELSE "error"]
        /\ access' = [access EXCEPT ![r] = NoAccess]
        /\ addr' = [addr EXCEPT ![r] = 0]
        /\ in_flight_map' = [in_flight_map EXCEPT ![r] = NoView]
        /\ ctl' = [pc |-> "resp", view |-> WayBack(r)]
        /\ kind' = kind /\ denied_output' = denied_output
        /\ input_needs_retry' = input_needs_retry /\ pending_itf' = pending_itf
    BY <1>0 DEF OutputResp, latches
  <1>4. r \in Reqs
    <2>1. down[i] \in Entries
      BY <1>2
    <2> QED BY <2>1, <1>0, <1>3 DEF Entries
  <1>5. up[r] = "granted"
    BY <1>0, <1>1, <1>4 DEF Places
  <1>6. View(r) = ViewK(k, r) /\ ViewK(k, r) \in Views
    BY <1>0, <1>4, KindDefs, ViewType
  <1>7. WayBack(r) = View(r) /\ (k = "testandset" => pending_itf = View(r))
    BY <1>0, <1>1, <1>4, <1>5, <1>6 DEF WayBack, Ways, ViewK
  <1>8. /\ up'[r] = "idle" /\ \A q \in Reqs \ {r} : up'[q] = up[q]
        /\ up' \in [Reqs -> MasterStates]
    BY <1>2, <1>3, <1>4, <1>5, <1>7 DEF AfterResp, MasterStates
  <1>9. /\ access' \in [Reqs -> Access] /\ addr' \in [Reqs -> Int]
        /\ in_flight_map' \in [Reqs -> Views \cup {NoView}]
        /\ \A q \in Reqs \ {r} : /\ access'[q] = access[q] /\ addr'[q] = addr[q]
                                 /\ in_flight_map'[q] = in_flight_map[q]
    BY <1>2, <1>3, <1>4 DEF NoAccess, Access
  <1>10. ctl' \in [pc : {"idle", "resp", "retry", "retried"}, view : Views]
    BY <1>3, <1>6, <1>7
  <1>11. d \in Seq(Entries) /\ Len(d) = Len(down) - 1 /\ Len(d) \in Nat /\ DOMAIN down = 1 .. Len(down)
    <2>1. d \in Seq(Entries) /\ Len(d) = Len(down) - 1
      BY <1>0, <1>2, RemoveFacts
    <2> QED BY <2>1, <1>2
  <1>12. Completes(r, access[r], ok, View(r), d)
    <2>1. CASE k = "testandset"
      BY <2>1, <1>3, <1>7
    <2>2. CASE k # "testandset"
      BY <2>2, <1>0, <1>3 DEF Completes, TakesLock
    <2> QED BY <2>1, <2>2
  <1>13. Stores(kind, d)
    <2>1. \A j \in DOMAIN d : \E l \in DOMAIN down : d[j] = down[l]
      BY <1>0, <1>2, RemoveFacts
    <2> QED BY <2>1, <1>0, <1>1 DEF Stores
  <1>15. /\ down' = d \/ down' = Append(d, SetEntry)
         /\ down' \in Seq(Entries)
         /\ owes \subseteq owes' /\ owes' \subseteq Outputs
         /\ mem' \in [lock : {"free", "taken"}, holders : 0 .. 2]
         /\ Stores(kind, down')
    <2>1. access[r] \in Access
      BY <1>2, <1>4
    <2> QED BY <2>1, <1>0, <1>4, <1>11, <1>12, <1>13, CompletesFacts
  <1>16. Places(k, access', addr', up', d)
    <2> SUFFICES ASSUME NEW q \in Reqs
                 PROVE  /\ up'[q] # "error"
                        /\ up'[q] = "granted" <=> \E j \in DOMAIN d : d[j].req = q
                        /\ \A j, l \in DOMAIN d : d[j].req = q /\ d[l].req = q => j = l
                        /\ \A j \in DOMAIN d : d[j].req = q =>
                              /\ d[j].out = RouteK(k, access'[q])
                              /\ addr'[q] = RemapK(k, access'[q])
                        /\ up'[q] = "denied" => addr'[q] = access'[q].addr
      BY DEF Places
    <2>1. CASE q = r
      <3>1. \A j \in DOMAIN down : down[j].req = r => j = i
        BY <1>0, <1>1, <1>4 DEF Places
      <3>2. \A j \in DOMAIN d : \E l \in DOMAIN down : d[j] = down[l] /\ l # i
        <4>1. /\ DOMAIN d \subseteq Int /\ i \in Int
          BY <1>2, <1>11
        <4> QED BY <4>1, <1>0, <1>2, RemoveFacts
      <3>3. \A j \in DOMAIN d : d[j].req # r
        BY <3>1, <3>2
      <3> QED BY <2>1, <3>3, <1>8
    <2>2. CASE q # r
      <3>1. /\ up[q] = "granted" <=> \E j \in DOMAIN d : d[j].req = q
            /\ \A j, l \in DOMAIN d : d[j].req = q /\ d[l].req = q => j = l
            /\ \A j \in DOMAIN d : d[j].req = q => /\ d[j].out = RouteK(k, access[q])
                                                   /\ addr[q] = RemapK(k, access[q])
        BY <2>2, <1>0, <1>1, <1>2, RemovePlaces
      <3>2. up[q] # "error" /\ (up[q] = "denied" => addr[q] = access[q].addr)
        BY <1>1 DEF Places
      <3> QED BY <2>2, <3>1, <3>2, <1>8, <1>9
    <2> QED BY <2>1, <2>2
  <1>17. Places(k, access', addr', up', down')
    <2>1. Places(k, access', addr', up', Append(d, SetEntry))
      BY <1>11, <1>16, SetPlaces
    <2> QED BY <2>1, <1>15, <1>16
  <1>18. Owed(k, denied_output', input_needs_retry', access', ctl', up', owes')
    <2> SUFFICES ASSUME NEW q \in Reqs, up'[q] = "denied"
                 PROVE  /\ RouteK(k, access'[q]) \in owes'
                        /\ Passes(k, denied_output', input_needs_retry', RouteK(k, access'[q]))
      BY DEF Owed
    <2>1. up[q] = "denied" /\ access'[q] = access[q]
      BY <1>8, <1>9
    <2>2. ~Awaits(k, q, ctl)
      BY <1>3 DEF Idle, Awaits
    <2>3. /\ RouteK(k, access[q]) \in owes
          /\ Passes(k, denied_output, input_needs_retry, RouteK(k, access[q]))
      BY <2>1, <2>2, <1>1 DEF Owed
    <2> QED BY <2>1, <2>3, <1>3, <1>15
  <1>19. OneDenied(k, up')
    BY <1>1, <1>8 DEF OneDenied
  <1>20. Ways(k, pending_itf', in_flight_map', up')
    BY <1>1, <1>3, <1>8, <1>9 DEF Ways
  <1>21. Types(kind', denied_output', input_needs_retry', pending_itf', in_flight_map',
               access', addr', ctl', up', down', owes', mem')
    BY <1>0, <1>1, <1>3, <1>8, <1>9, <1>10, <1>15 DEF Types
  <1> QED BY <1>0, <1>3, <1>15, <1>17, <1>18, <1>19, <1>20, <1>21, Fold

(* The steps in which the requests and the slaves stay as they are. *)
LEMMA CtlInvariant ==
    ASSUME IInv, UNCHANGED <<kind, pending_itf, in_flight_map, access, addr, up, down, mem>>,
           denied_output' \in Outputs \cup {NoOut}, input_needs_retry' \in BOOLEAN,
           ctl' \in [pc : {"idle", "resp", "retry", "retried"}, view : Views],
           owes' \subseteq Outputs,
           Owed(kind, denied_output', input_needs_retry', access, ctl', up, owes')
    PROVE  IInv'
  <1>1. /\ Types(kind, denied_output, input_needs_retry, pending_itf, in_flight_map,
                 access, addr, ctl, up, down, owes, mem)
        /\ Places(kind, access, addr, up, down)
        /\ OneDenied(kind, up) /\ Ways(kind, pending_itf, in_flight_map, up)
        /\ Stores(kind, down)
    BY Unfold
  <1>2. Types(kind', denied_output', input_needs_retry', pending_itf', in_flight_map',
              access', addr', ctl', up', down', owes', mem')
    BY <1>1 DEF Types
  <1>3. /\ Places(kind', access', addr', up', down')
        /\ Owed(kind', denied_output', input_needs_retry', access', ctl', up', owes')
        /\ OneDenied(kind', up') /\ Ways(kind', pending_itf', in_flight_map', up')
        /\ Stores(kind', down')
    BY <1>1
  <1> QED BY <1>2, <1>3, Fold

LEMMA OutputBeatInvariant ==
    ASSUME IInv, NEW i \in DOMAIN down, OutputBeat(i)
    PROVE  IInv'
  <1>0. PICK k, r : k = kind /\ r = down[i].req
    OBVIOUS
  <1>1. /\ Places(k, access, addr, up, down)
        /\ Owed(k, denied_output, input_needs_retry, access, ctl, up, owes)
        /\ Ways(k, pending_itf, in_flight_map, up) /\ Stores(k, down)
    BY <1>0, Unfold
  <1>2. /\ up \in [Reqs -> MasterStates] /\ down \in Seq(Entries) /\ owes \subseteq Outputs
        /\ denied_output \in Outputs \cup {NoOut} /\ input_needs_retry \in BOOLEAN
    BY Unfold DEF Types
  <1>3. /\ ctl = Idle /\ kind = "router_untimed"
        /\ up' = [up EXCEPT ![r] = IF WayBack(r) = View(r) THEN @ ELSE "error"]
        /\ ctl' = [pc |-> "resp", view |-> WayBack(r)]
        /\ UNCHANGED <<kind, denied_output, input_needs_retry, pending_itf, in_flight_map,
                       access, addr, down, owes, mem>>
    BY <1>0 DEF OutputBeat, latches
  <1>4. r \in Reqs
    <2>1. down[i] \in Entries /\ down[i].req # SetReq
      BY <1>0, <1>1, <1>2, <1>3 DEF Stores
    <2> QED BY <2>1, <1>0 DEF Entries
  <1>5. up[r] = "granted"
    BY <1>0, <1>1, <1>4 DEF Places
  <1>6. WayBack(r) = View(r) /\ View(r) \in Views
    <2>1. View(r) = ViewK(k, r) /\ ViewK(k, r) \in Views
      BY <1>0, <1>4, KindDefs, ViewType
    <2>2. in_flight_map[r] = ViewK(k, r)
      BY <1>0, <1>1, <1>3, <1>4, <1>5 DEF Ways
    <2> QED BY <2>1, <2>2, <1>3 DEF WayBack
  <1>7. up' = up
    BY <1>2, <1>3, <1>4, <1>6
  <1>8. ctl' \in [pc : {"idle", "resp", "retry", "retried"}, view : Views]
    BY <1>3, <1>6
  <1>9. \A q \in Reqs : ~Awaits(k, q, ctl) /\ ~Awaits(k, q, ctl')
    BY <1>3 DEF Awaits, Idle
  <1>10. Owed(kind, denied_output', input_needs_retry', access, ctl', up, owes')
    <2>1. Owed(kind, denied_output, input_needs_retry, access, ctl', up, owes)
      BY <1>0, <1>1, <1>9 DEF Owed
    <2> QED BY <2>1, <1>3
  <1> QED BY <1>2, <1>3, <1>7, <1>8, <1>10, CtlInvariant

LEMMA SetRespInvariant ==
    ASSUME IInv, NEW i \in DOMAIN down, SetResp(i)
    PROVE  IInv'
  <1>0. PICK d : d = RemoveAt(down, i)
    OBVIOUS
  <1>1. /\ Types(kind, denied_output, input_needs_retry, pending_itf, in_flight_map,
                 access, addr, ctl, up, down, owes, mem)
        /\ Places(kind, access, addr, up, down)
        /\ Owed(kind, denied_output, input_needs_retry, access, ctl, up, owes)
        /\ OneDenied(kind, up) /\ Ways(kind, pending_itf, in_flight_map, up)
        /\ Stores(kind, down)
    BY Unfold
  <1>2. /\ kind \in Kinds /\ down \in Seq(Entries)
        /\ mem \in [lock : {"free", "taken"}, holders : 0 .. 2]
    BY <1>1 DEF Types
  <1>3. /\ down[i].req = SetReq /\ down' = d
        /\ mem' = [mem EXCEPT !.lock = "taken"]
        /\ UNCHANGED <<kind, denied_output, input_needs_retry, pending_itf, in_flight_map,
                       access, addr, ctl, up, owes>>
    BY <1>0 DEF SetResp, latches, Taken
  <1>4. kind = "testandset"
    BY <1>1, <1>3 DEF Stores
  <1>6. d \in Seq(Entries)
    BY <1>0, <1>2, RemoveFacts
  <1>8. mem' \in [lock : {"free", "taken"}, holders : 0 .. 2]
    BY <1>2, <1>3
  <1>9. Stores(kind, d)
    BY <1>4 DEF Stores
  <1>10. Places(kind, access, addr, up, d)
    <2> SUFFICES ASSUME NEW q \in Reqs
                 PROVE  /\ up[q] # "error"
                        /\ up[q] = "granted" <=> \E j \in DOMAIN d : d[j].req = q
                        /\ \A j, l \in DOMAIN d : d[j].req = q /\ d[l].req = q => j = l
                        /\ \A j \in DOMAIN d : d[j].req = q =>
                              /\ d[j].out = RouteK(kind, access[q])
                              /\ addr[q] = RemapK(kind, access[q])
                        /\ up[q] = "denied" => addr[q] = access[q].addr
      BY DEF Places
    <2>1. down[i].req # q
      BY <1>3, ForwardersAssumption
    <2>2. /\ up[q] = "granted" <=> \E j \in DOMAIN d : d[j].req = q
          /\ \A j, l \in DOMAIN d : d[j].req = q /\ d[l].req = q => j = l
          /\ \A j \in DOMAIN d : d[j].req = q => /\ d[j].out = RouteK(kind, access[q])
                                                 /\ addr[q] = RemapK(kind, access[q])
      BY <2>1, <1>0, <1>1, <1>2, RemovePlaces
    <2>3. up[q] # "error" /\ (up[q] = "denied" => addr[q] = access[q].addr)
      BY <1>1 DEF Places
    <2> QED BY <2>2, <2>3
  <1>11. Types(kind', denied_output', input_needs_retry', pending_itf', in_flight_map',
               access', addr', ctl', up', down', owes', mem')
    BY <1>1, <1>3, <1>6, <1>8 DEF Types
  <1>12. /\ Places(kind', access', addr', up', down')
         /\ Owed(kind', denied_output', input_needs_retry', access', ctl', up', owes')
         /\ OneDenied(kind', up') /\ Ways(kind', pending_itf', in_flight_map', up')
         /\ Stores(kind', down')
    BY <1>1, <1>3, <1>9, <1>10
  <1> QED BY <1>11, <1>12, Fold

LEMMA OutputRetryInvariant ==
    ASSUME IInv, NEW out \in Outputs, OutputRetry(out)
    PROVE  IInv'
  <1>1. /\ Ways(kind, pending_itf, in_flight_map, up)
        /\ pending_itf \in Views /\ owes \subseteq Outputs
    BY Unfold DEF Types
  <1>2. /\ owes' = owes \ {out} /\ denied_output' = NoOut /\ input_needs_retry' = FALSE
        /\ ctl' = [pc |-> "retry", view |-> IF kind = "testandset" THEN pending_itf ELSE "input"]
        /\ UNCHANGED <<kind, pending_itf, in_flight_map, access, addr, up, down, mem>>
    BY DEF OutputRetry
  <1>3. ctl' \in [pc : {"idle", "resp", "retry", "retried"}, view : Views]
    BY <1>1, <1>2 DEF Views
  <1>4. PICK c : c = ctl'
    OBVIOUS
  <1>5. c.pc = "retry" /\ c.view = IF kind = "testandset" THEN pending_itf ELSE "input"
    BY <1>2, <1>4
  <1>6. ASSUME NEW q \in Reqs, up[q] = "denied"
        PROVE  Awaits(kind, q, c)
    <2>1. ViewK(kind, q) \in Views
      BY ViewType
    <2>2. CASE kind = "testandset"
      BY <2>2, <1>1, <1>5, <1>6 DEF Ways, Awaits
    <2>3. CASE kind = "router_untimed"
      BY <2>1, <2>3, <1>5 DEF Awaits, Views
    <2>4. CASE kind \notin {"testandset", "router_untimed"}
      BY <2>4, <1>5 DEF Awaits, ViewK
    <2> QED BY <2>2, <2>3, <2>4
  <1>7. Owed(kind, denied_output', input_needs_retry', access, ctl', up, owes')
    BY <1>4, <1>6 DEF Owed
  <1>8. denied_output' \in Outputs \cup {NoOut} /\ owes' \subseteq Outputs
    BY <1>1, <1>2
  <1>9. input_needs_retry' \in BOOLEAN
    BY <1>2
  <1> QED BY <1>2, <1>3, <1>7, <1>8, <1>9, CtlInvariant

LEMMA ReturnsInvariant ==
    ASSUME IInv, Returns
    PROVE  IInv'
  <1>1. /\ Owed(kind, denied_output, input_needs_retry, access, ctl, up, owes)
        /\ ctl \in [pc : {"idle", "resp", "retry", "retried"}, view : Views]
        /\ owes \subseteq Outputs
        /\ denied_output \in Outputs \cup {NoOut} /\ input_needs_retry \in BOOLEAN
    BY Unfold DEF Types
  <1>2. /\ \/ ctl.pc \in {"resp", "retried"}
           \/ ctl.pc = "retry" /\ NoneDenied(up, OnPort(ctl.view))
        /\ ctl' = AfterCall
        /\ UNCHANGED <<kind, denied_output, input_needs_retry, pending_itf, in_flight_map,
                       access, addr, up, down, owes, mem>>
    BY DEF Returns, latches
  <1>3. PICK c : c = AfterCall
    OBVIOUS
  <1>4. c \in [pc : {"idle", "resp", "retry", "retried"}, view : Views]
    BY <1>3 DEF AfterCall, Idle, Views
  <1>5. ASSUME NEW q \in Reqs, up[q] = "denied", ~Awaits(kind, q, c)
        PROVE  ~Awaits(kind, q, ctl)
    <2>1. ViewK(kind, q) \in Views /\ View(q) = ViewK(kind, q)
      BY ViewType, KindDefs
    <2>2. ctl.pc = "retry" => ViewK(kind, q) # ctl.view
      BY <2>1, <1>2, <1>5 DEF NoneDenied, OnPort
    <2>3. CASE kind = "router_untimed" /\ ctl.pc # "resp" /\ ctl.view = "input"
      <3>1. c.pc = "retry" /\ c.view = "passthrough"
        BY <2>3, <1>3 DEF AfterCall
      <3>2. ViewK(kind, q) # "passthrough"
        BY <3>1, <1>5 DEF Awaits
      <3> QED BY <2>2, <3>2 DEF Awaits
    <2>4. CASE ~(kind = "router_untimed" /\ ctl.pc # "resp" /\ ctl.view = "input")
      BY <2>2, <2>4 DEF Awaits
    <2> QED BY <2>3, <2>4
  <1>6. Owed(kind, denied_output, input_needs_retry, access, c, up, owes)
    BY <1>1, <1>5 DEF Owed
  <1>7. Owed(kind, denied_output', input_needs_retry', access, ctl', up, owes')
    BY <1>2, <1>3, <1>6
  <1>8. /\ denied_output' \in Outputs \cup {NoOut} /\ owes' \subseteq Outputs
        /\ ctl' \in [pc : {"idle", "resp", "retry", "retried"}, view : Views]
    BY <1>1, <1>2, <1>3, <1>4
  <1>9. input_needs_retry' \in BOOLEAN
    BY <1>1, <1>2
  <1> QED BY <1>2, <1>7, <1>8, <1>9, CtlInvariant

-----------------------------------------------------------------------------
(* A state in which no request has been issued. *)
LEMMA FreshState ==
    ASSUME NEW k \in Kinds, NEW v \in Views, NEW f \in [Reqs -> Views \cup {NoView}],
           NEW l, NEW n, NEW ac, NEW ad, NEW c, NEW u, NEW d, NEW w,
           NEW m \in [lock : {"free", "taken"}, holders : 0 .. 2],
           l = NoOut, n = FALSE,
           ac = [r \in Reqs |-> NoAccess], ad = [r \in Reqs |-> 0], c = Idle,
           u = [r \in Reqs |-> "idle"], d = <<>>, w = {}
    PROVE  /\ Types(k, l, n, v, f, ac, ad, c, u, d, w, m)
           /\ Places(k, ac, ad, u, d) /\ Owed(k, l, n, ac, c, u, w)
           /\ OneDenied(k, u) /\ Ways(k, v, f, u) /\ Stores(k, d)
  <1>1. /\ ac \in [Reqs -> Access] /\ ad \in [Reqs -> Int] /\ u \in [Reqs -> MasterStates]
        /\ \A r \in Reqs : u[r] = "idle"
    BY DEF NoAccess, Access, MasterStates
  <1>2. d \in Seq(Entries) /\ DOMAIN d = {}
    OBVIOUS
  <1>3. /\ c \in [pc : {"idle", "resp", "retry", "retried"}, view : Views]
        /\ l \in Outputs \cup {NoOut} /\ w \subseteq Outputs
    BY DEF Idle, Views
  <1>4. n \in BOOLEAN
    OBVIOUS
  <1>5. Types(k, l, n, v, f, ac, ad, c, u, d, w, m)
    BY <1>1, <1>2, <1>3, <1>4 DEF Types
  <1>6. /\ Places(k, ac, ad, u, d) /\ Owed(k, l, n, ac, c, u, w)
        /\ OneDenied(k, u) /\ Ways(k, v, f, u) /\ Stores(k, d)
    BY <1>1, <1>2 DEF Places, Owed, OneDenied, Ways, Stores
  <1> QED BY <1>5, <1>6

LEMMA InitInvariant == Init => IInv
  <1> SUFFICES ASSUME Init PROVE IInv
    OBVIOUS
  <1>1. /\ kind \in Kinds /\ pending_itf \in Views
        /\ in_flight_map \in [Reqs -> Views \cup {NoView}]
        /\ mem \in [lock : {"free", "taken"}, holders : 0 .. 2]
    BY DEF Init, Views
  <1>2. /\ denied_output = NoOut /\ input_needs_retry = FALSE
        /\ access = [r \in Reqs |-> NoAccess] /\ addr = [r \in Reqs |-> 0] /\ ctl = Idle
        /\ up = [r \in Reqs |-> "idle"] /\ down = <<>> /\ owes = {}
    BY DEF Init
  <1> QED BY <1>1, <1>2, FreshState DEF IInv, State

LEMMA ResetInvariant == IInv /\ Reset => IInv'
  <1> SUFFICES ASSUME IInv, Reset PROVE IInv'
    OBVIOUS
  <1>1. /\ kind \in Kinds /\ pending_itf \in Views
        /\ in_flight_map \in [Reqs -> Views \cup {NoView}]
        /\ mem \in [lock : {"free", "taken"}, holders : 0 .. 2]
    BY Unfold DEF Types
  <1>2. /\ denied_output' = NoOut /\ input_needs_retry' = FALSE
        /\ access' = [r \in Reqs |-> NoAccess] /\ addr' = [r \in Reqs |-> 0] /\ ctl' = Idle
        /\ up' = [r \in Reqs |-> "idle"] /\ down' = <<>> /\ owes' = {}
        /\ mem' = [mem EXCEPT !.holders = 0]
        /\ UNCHANGED <<kind, pending_itf, in_flight_map>>
    BY DEF Reset
  <1>3. mem' \in [lock : {"free", "taken"}, holders : 0 .. 2]
    BY <1>1, <1>2
  <1>4. /\ kind' \in Kinds /\ pending_itf' \in Views
        /\ in_flight_map' \in [Reqs -> Views \cup {NoView}]
    BY <1>1, <1>2
  <1>5. PICK l, n, ac, ad, c, u, d, w :
            /\ l = denied_output' /\ n = input_needs_retry' /\ ac = access' /\ ad = addr'
            /\ c = ctl' /\ u = up' /\ d = down' /\ w = owes'
    OBVIOUS
  <1>6. /\ l = NoOut /\ n = FALSE /\ ac = [r \in Reqs |-> NoAccess] /\ ad = [r \in Reqs |-> 0]
        /\ c = Idle /\ u = [r \in Reqs |-> "idle"] /\ d = <<>> /\ w = {}
    BY <1>2, <1>5
  <1>7. /\ Types(kind', l, n, pending_itf', in_flight_map', ac, ad, c, u, d, w, mem')
        /\ Places(kind', ac, ad, u, d) /\ Owed(kind', l, n, ac, c, u, w)
        /\ OneDenied(kind', u) /\ Ways(kind', pending_itf', in_flight_map', u)
        /\ Stores(kind', d)
    BY <1>3, <1>4, <1>6, FreshState
  <1> QED BY <1>5, <1>7, Fold

LEMMA NextInvariant ==
    ASSUME OneAtATime, IInv, [Next]_vars
    PROVE  IInv'
  <1>1. CASE \E r \in Reqs, a \in Accesses[kind], st \in IoReqStatus, ok \in BOOLEAN :
                MasterReq(r, a, st, ok)
    BY <1>1, MasterReqInvariant
  <1>2. CASE \E r \in Reqs, st \in IoReqStatus, ok \in BOOLEAN : MasterReissue(r, st, ok)
    BY <1>2, MasterReissueInvariant
  <1>3. CASE \E i \in DOMAIN down : SetResp(i) \/ OutputBeat(i) \/ \E ok \in BOOLEAN : OutputResp(i, ok)
    BY <1>3, SetRespInvariant, OutputBeatInvariant, OutputRespInvariant
  <1>4. CASE \E out \in Outputs : OutputRetry(out)
    BY <1>4, OutputRetryInvariant
  <1>5. CASE Returns
    BY <1>5, ReturnsInvariant
  <1>6. CASE Reset
    BY <1>6, ResetInvariant
  <1>7. CASE UNCHANGED vars
    BY <1>7 DEF vars, latches, IInv, State, Types, Places, Owed, OneDenied, Ways, Stores, RouteK,
       RemapK, ViewK, Awaits, Passes
  <1> QED BY <1>1, <1>2, <1>3, <1>4, <1>5, <1>6, <1>7 DEF Next

-----------------------------------------------------------------------------
(* Every variable of a forwarder keeps its type: in particular the output  *)
(* that is latched is one there is, and no address it sends is undefined.  *)
THEOREM ForwardersTypeCorrect == ASSUME OneAtATime PROVE Spec => []TypeOK
  <1>1. Init => IInv
    BY InitInvariant
  <1>2. IInv /\ [Next]_vars => IInv'
    BY NextInvariant
  <1>3. IInv => TypeOK
    BY Consequences
  <1> QED BY <1>1, <1>2, <1>3, PTL DEF Spec

(* A request is forwarded to the output it selects, at the address the     *)
(* window moves it to, once; it comes back refused as it was, with a       *)
(* retry() to come, and it is answered the way it came: demux_v2,          *)
(* rw_splitter_v2, remapper_v2, router_v2_untimed, and testandset_v2 for   *)
(* masters that have one access at a time, in front of any memory.         *)
THEOREM ForwardedTheorem == ASSUME OneAtATime PROVE Spec => []ForwardedFaithfully
  <1>1. Init => IInv
    BY InitInvariant
  <1>2. IInv /\ [Next]_vars => IInv'
    BY NextInvariant
  <1>3. IInv => ForwardedFaithfully
    BY Consequences
  <1> QED BY <1>1, <1>2, <1>3, PTL DEF Spec
=============================================================================
