------------------------ MODULE SwitchDocument_proofs ------------------------
(***************************************************************************)
(* Proofs about SwitchDocument: whatever the document holds, and in        *)
(* whatever order its elements come, what the handlers gather in their     *)
(* bundle and their tables is what is written, so a lookup answers from    *)
(* the document.  SwitchDocument's tables are functions; the second half   *)
(* proves about SwitchHash that the hash tables of the heap, which they    *)
(* are in the code, are maps.                                              *)
(***************************************************************************)
EXTENDS SwitchDocument, SwitchHash, SequenceTheorems, FiniteSetTheorems,
        WellFoundedInduction, TLAPS

(* The document so far: which handlers' elements are open, the last module *)
(* and the last switch that are written.                                   *)
InModule == Len(nodes) >= 3 /\ nodes[3] = "module"
InSwitch == InModule /\ Len(nodes) >= 4 /\ nodes[4] = "switch"

LastModule == written[Len(written)]
LastSwitch == LastModule.switches[Len(LastModule.switches)]

EntryOf(s) == [type |-> Kind(s.type), value |-> s.text]

\* Table t holds the last switch of each name among the first n of s.
TableOf(t, s, n) ==
    /\ DOMAIN t = {s[k].name : k \in 1 .. n}
    /\ \A k \in 1 .. n :
          (\A j \in k + 1 .. n : s[j].name # s[k].name)
             => t[s[k].name] = EntryOf(s[k])

\* Modules ms hold the last module of each id among the first n of w.
ModulesOf(ms, w, n) ==
    /\ DOMAIN ms = {w[k].id : k \in 1 .. n} \ {None}
    /\ \A k \in 1 .. n :
          /\ w[k].id # None
          /\ \A j \in k + 1 .. n : w[j].id # w[k].id
          => TableOf(ms[w[k].id], w[k].switches, Len(w[k].switches))

PathInv ==
    /\ nodes \in Seq({"switch-config", "modules", "module", "switch", "note"})
    /\ Len(nodes) >= 2
    /\ nodes[1] = "switch-config" /\ nodes[2] = "modules"

WrittenInv ==
    written \in Seq([id : Id \cup {None},
                     switches : Seq([name : Name \cup {None},
                                     type : Type \cup {None},
                                     text : Text \cup {<<>>}])])

\* What the bundle says of the module that is open ...
ModuleInv ==
    /\ InModule => Len(written) > 0 /\ ModulesOf(modules, written, Len(written) - 1)
    /\ ~InModule => userdata = None /\ ModulesOf(modules, written, Len(written))
    /\ InModule /\ LastModule.id = None => userdata = None
    /\ InModule /\ LastModule.id # None =>
          /\ userdata # None /\ userdata.id = LastModule.id
          /\ InSwitch => TableOf(userdata.params, LastModule.switches,
                                 Len(LastModule.switches) - 1)
          /\ ~InSwitch => TableOf(userdata.params, LastModule.switches,
                                  Len(LastModule.switches))

\* ... and the handler's body and the bundle of the switch that is.
SwitchInv ==
    /\ ~InSwitch => body = <<>>
    /\ InSwitch =>
          /\ Len(LastModule.switches) > 0
          /\ body = LastSwitch.text
          /\ userdata2 = [name |-> LastSwitch.name, type |-> Kind(LastSwitch.type)]

BuiltFrom(c, ms, answered) ==
    c = [m \in DOMAIN ms |->
            [n \in DOMAIN ms[m] |-> Element(ms[m][n], answered[<<m, n>>])]]

BuiltInv ==
    /\ pc \in {"parsed", "built"} => ~InModule
    /\ pc = "built" =>
          \E answered \in [Id \X Name -> BOOLEAN] : BuiltFrom(config, modules, answered)

DocInv ==
    /\ TypeOK /\ PathInv /\ WrittenInv /\ BuiltInv
    /\ pc # "crashed" => ModuleInv /\ SwitchInv

-----------------------------------------------------------------------------
(* What the path of the open elements becomes when one opens or closes.    *)
Elements == {"switch-config", "modules", "module", "switch", "note"}

LEMMA Paths ==
    /\ ModulePath = <<"switch-config", "modules", "module">>
    /\ SwitchPath = <<"switch-config", "modules", "module", "switch">>
    /\ Front(ModulePath) = <<"switch-config", "modules">>
<1> DEFINE m == <<"switch-config", "modules", "module">>
           s == <<"switch-config", "modules", "module", "switch">>
           f == <<"switch-config", "modules">>
<1>1. m \in Seq(Elements) /\ s \in Seq(Elements) /\ f \in Seq(Elements)
  BY DEF Elements
<1>2. Append(m, "switch") = s
  <2>1. PICK a : a = Append(m, "switch")
    OBVIOUS
  <2>2. PICK b : b = m
    OBVIOUS
  <2>3. b \in Seq(Elements) /\ Len(b) = 3 /\ "switch" \in Elements
    BY <1>1, <2>2 DEF Elements
  <2>4. /\ a \in Seq(Elements) /\ Len(a) = 4 /\ a[4] = "switch"
        /\ \A i \in 1 .. 3 : a[i] = b[i]
    BY <2>1, <2>2, <2>3, AppendProperties
  <2>5. a[1] = "switch-config" /\ a[2] = "modules" /\ a[3] = "module"
    BY <2>2, <2>4
  <2>6. \A i \in 1 .. Len(a) : a[i] = s[i]
    BY <2>4, <2>5
  <2>7. a = s
    BY <1>1, <2>4, <2>6, SeqEqual
  <2>8. QED
    BY <2>1, <2>7
<1>3. Front(m) = f
  <2>1. /\ Len(m) = 3 /\ m[1] = "switch-config" /\ m[2] = "modules"
        /\ Len(f) = 2 /\ f[1] = "switch-config" /\ f[2] = "modules"
    OBVIOUS
  <2>2. PICK g : g = Front(m)
    OBVIOUS
  <2>3. /\ SubSeq(m, 1, 2) \in Seq(Elements) /\ Len(SubSeq(m, 1, 2)) = 2
        /\ \A i \in 1 .. 2 : SubSeq(m, 1, 2)[i] = m[i]
    <3>1. \A i \in 1 .. 2 : m[i] \in Elements
      BY <2>1 DEF Elements
    <3>2. /\ SubSeq(m, 1, 2) \in Seq(Elements)
          /\ Len(SubSeq(m, 1, 2)) = IF 1 <= 2 THEN 2 - 1 + 1 ELSE 0
          /\ \A i \in 1 .. 2 - 1 + 1 : SubSeq(m, 1, 2)[i] = m[1 + i - 1]
      BY <3>1, SubSeqProperties
    <3>3. QED
      BY <3>2
  <2>4. g \in Seq(Elements) /\ Len(g) = 2 /\ g[1] = f[1] /\ g[2] = f[2]
    BY <2>1, <2>2, <2>3 DEF Front
  <2>5. \A i \in 1 .. Len(g) : g[i] = f[i]
    BY <2>4
  <2>6. Len(g) = Len(f)
    BY <2>1, <2>4
  <2>7. g = f
    BY <1>1, <2>4, <2>5, <2>6, SeqEqual
  <2>8. QED
    BY <2>2, <2>7
<1>4. QED
  BY <1>2, <1>3 DEF ModulePath, SwitchPath

LEMMA PathIs ==
    ASSUME NEW p \in Seq(Elements), Len(p) >= 2,
           p[1] = "switch-config", p[2] = "modules"
    PROVE  /\ p = ModulePath <=> Len(p) = 3 /\ p[3] = "module"
           /\ p = SwitchPath <=> Len(p) = 4 /\ p[3] = "module" /\ p[4] = "switch"
           /\ p = Front(ModulePath) <=> Len(p) = 2
<1>1. ASSUME NEW q \in Seq(Elements)
      PROVE  p = q <=> Len(p) = Len(q) /\ \A i \in 1 .. Len(q) : p[i] = q[i]
  BY SeqEqual
<1>2. p = ModulePath <=> Len(p) = 3 /\ p[3] = "module"
  <2>1. PICK q : q = <<"switch-config", "modules", "module">>
    OBVIOUS
  <2>2. /\ q \in Seq(Elements) /\ Len(q) = 3
        /\ q[1] = "switch-config" /\ q[2] = "modules" /\ q[3] = "module"
    BY <2>1 DEF Elements
  <2>3. p = q <=> Len(p) = Len(q) /\ \A i \in 1 .. Len(q) : p[i] = q[i]
    BY <1>1, <2>2
  <2>4. 1 .. Len(q) = {1, 2, 3}
    BY <2>2
  <2>5. QED
    BY <2>1, <2>2, <2>3, <2>4, Paths
<1>3. p = SwitchPath <=> Len(p) = 4 /\ p[3] = "module" /\ p[4] = "switch"
  <2>1. PICK q : q = <<"switch-config", "modules", "module", "switch">>
    OBVIOUS
  <2>2. /\ q \in Seq(Elements) /\ Len(q) = 4
        /\ q[1] = "switch-config" /\ q[2] = "modules" /\ q[3] = "module"
        /\ q[4] = "switch"
    BY <2>1 DEF Elements
  <2>3. p = q <=> Len(p) = Len(q) /\ \A i \in 1 .. Len(q) : p[i] = q[i]
    BY <1>1, <2>2
  <2>4. 1 .. Len(q) = {1, 2, 3, 4}
    BY <2>2
  <2>5. QED
    BY <2>1, <2>2, <2>3, <2>4, Paths
<1>4. p = Front(ModulePath) <=> Len(p) = 2
  <2>1. PICK q : q = <<"switch-config", "modules">>
    OBVIOUS
  <2>2. /\ q \in Seq(Elements) /\ Len(q) = 2
        /\ q[1] = "switch-config" /\ q[2] = "modules"
    BY <2>1 DEF Elements
  <2>3. p = q <=> Len(p) = Len(q) /\ \A i \in 1 .. Len(q) : p[i] = q[i]
    BY <1>1, <2>2
  <2>4. 1 .. Len(q) = {1, 2}
    BY <2>2
  <2>5. QED
    BY <2>1, <2>2, <2>3, <2>4, Paths
<1>5. QED
  BY <1>2, <1>3, <1>4

LEMMA PathIsModule ==
    ASSUME PathInv
    PROVE  /\ nodes = ModulePath <=> InModule /\ Len(nodes) = 3
           /\ nodes = SwitchPath <=> InSwitch /\ Len(nodes) = 4
           /\ nodes = Front(ModulePath) <=> Len(nodes) = 2
<1>1. nodes \in Seq(Elements)
  BY DEF PathInv, Elements
<1>2. PICK p : p = nodes
  OBVIOUS
<1>3. /\ p = ModulePath <=> Len(p) = 3 /\ p[3] = "module"
      /\ p = SwitchPath <=> Len(p) = 4 /\ p[3] = "module" /\ p[4] = "switch"
      /\ p = Front(ModulePath) <=> Len(p) = 2
  BY <1>1, <1>2, PathIs DEF PathInv
<1>4. QED
  BY <1>2, <1>3 DEF InModule, InSwitch

LEMMA OneBefore ==
    ASSUME NEW a, NEW b \in Nat, a = b + 1
    PROVE  /\ a = 3 => b = 2
           /\ a = 4 => b = 3
OBVIOUS

LEMMA PathOpened ==
    ASSUME PathInv, NEW el \in Elements, nodes' = Append(nodes, el)
    PROVE  /\ PathInv'
           /\ Len(nodes') = Len(nodes) + 1 /\ nodes'[Len(nodes) + 1] = el
           /\ \A i \in 1 .. Len(nodes) : nodes'[i] = nodes[i]
<1>1. nodes \in Seq(Elements) /\ Len(nodes) \in Nat /\ Len(nodes) >= 2
  BY DEF PathInv, Elements
<1>2. /\ nodes' \in Seq(Elements) /\ Len(nodes') = Len(nodes) + 1
      /\ nodes'[Len(nodes) + 1] = el
      /\ \A i \in 1 .. Len(nodes) : nodes'[i] = nodes[i]
  BY <1>1, AppendProperties
<1>3. QED
  BY <1>1, <1>2 DEF PathInv, Elements

LEMMA PathClosed ==
    ASSUME PathInv, Len(nodes) >= 3, nodes' = Front(nodes)
    PROVE  /\ PathInv'
           /\ Len(nodes') = Len(nodes) - 1
           /\ \A i \in 1 .. Len(nodes) - 1 : nodes'[i] = nodes[i]
<1>1. nodes \in Seq(Elements) /\ Len(nodes) \in Nat
  BY DEF PathInv, Elements
<1>2. nodes' = SubSeq(nodes, 1, Len(nodes) - 1)
  BY DEF Front
<1>3. /\ nodes' \in Seq(Elements) /\ Len(nodes') = Len(nodes) - 1
      /\ \A i \in 1 .. Len(nodes) - 1 : nodes'[i] = nodes[i]
  BY <1>1, <1>2, SubSeqProperties
<1>4. QED
  BY <1>1, <1>3 DEF PathInv, Elements

\* Opening or closing an element no handler looks at leaves both open or not.
LEMMA OtherOpened ==
    ASSUME PathInv, NEW el \in Elements, nodes' = Append(nodes, el),
           nodes' # ModulePath, nodes' # SwitchPath
    PROVE  PathInv' /\ (InModule' <=> InModule) /\ (InSwitch' <=> InSwitch)
<1>1. /\ PathInv' /\ Len(nodes') = Len(nodes) + 1
      /\ \A i \in 1 .. Len(nodes) : nodes'[i] = nodes[i]
  BY PathOpened
<1>2. Len(nodes) \in Nat /\ Len(nodes) >= 2
  BY DEF PathInv
<1>3. ~ (InModule' /\ Len(nodes') = 3) /\ ~ (InSwitch' /\ Len(nodes') = 4)
  <2>1. PICK p : p = nodes'
    OBVIOUS
  <2>2. p \in Seq(Elements) /\ Len(p) >= 2 /\ p[1] = "switch-config" /\ p[2] = "modules"
    BY <1>1, <2>1 DEF PathInv, Elements
  <2>3. ~ (Len(p) = 3 /\ p[3] = "module")
        /\ ~ (Len(p) = 4 /\ p[3] = "module" /\ p[4] = "switch")
    BY <2>1, <2>2, PathIs
  <2>4. QED
    BY <2>1, <2>3 DEF InModule, InSwitch
<1>4. QED
  BY <1>1, <1>2, <1>3 DEF InModule, InSwitch

LEMMA OtherClosed ==
    ASSUME PathInv, nodes' = Front(nodes),
           nodes \notin {Front(ModulePath), ModulePath, SwitchPath}
    PROVE  PathInv' /\ (InModule' <=> InModule) /\ (InSwitch' <=> InSwitch)
<1>1. Len(nodes) \in Nat /\ Len(nodes) >= 3
      /\ ~ (InModule /\ Len(nodes) = 3) /\ ~ (InSwitch /\ Len(nodes) = 4)
  <2>1. Len(nodes) # 2 /\ ~ (InModule /\ Len(nodes) = 3)
        /\ ~ (InSwitch /\ Len(nodes) = 4)
    BY PathIsModule
  <2>2. PICK l : l = Len(nodes)
    OBVIOUS
  <2>3. l \in Nat /\ l >= 2 /\ l # 2
    BY <2>1, <2>2 DEF PathInv
  <2>4. l >= 3
    BY <2>3
  <2>5. QED
    BY <2>1, <2>2, <2>3, <2>4
<1>2. /\ PathInv' /\ Len(nodes') = Len(nodes) - 1
      /\ \A i \in 1 .. Len(nodes) - 1 : nodes'[i] = nodes[i]
  BY <1>1, PathClosed
<1>3. QED
  BY <1>1, <1>2 DEF InModule, InSwitch

-----------------------------------------------------------------------------
(* A table that takes one more entry.                                      *)
Switches == Seq([name : Name \cup {None}, type : Type \cup {None},
                 text : Text \cup {<<>>}])

LEMMA TableTakes ==
    ASSUME NEW t, NEW s, NEW n \in Nat, TableOf(t, s, n), s[n + 1].name # None
    PROVE  TableOf(With(t, s[n + 1].name, EntryOf(s[n + 1])), s, n + 1)
<1> DEFINE u == With(t, s[n + 1].name, EntryOf(s[n + 1]))
<1>1. DOMAIN t = {s[k].name : k \in 1 .. n}
  BY DEF TableOf
<1>2. DOMAIN u = DOMAIN t \cup {s[n + 1].name}
  BY DEF With
<1>3. 1 .. n + 1 = (1 .. n) \cup {n + 1}
  OBVIOUS
<1>4. DOMAIN u = {s[k].name : k \in 1 .. n + 1}
  BY <1>1, <1>2, <1>3
<1>5. ASSUME NEW k \in 1 .. n + 1, \A j \in k + 1 .. n + 1 : s[j].name # s[k].name
      PROVE  u[s[k].name] = EntryOf(s[k])
  <2>1. CASE k = n + 1
    BY <2>1 DEF With
  <2>2. CASE k # n + 1
    <3>1. k \in 1 .. n /\ n + 1 \in k + 1 .. n + 1
      BY <2>2
    <3>2. s[k].name # s[n + 1].name
      BY <1>5, <3>1
    <3>3. \A j \in k + 1 .. n : s[j].name # s[k].name
      BY <1>5, <3>1
    <3>4. t[s[k].name] = EntryOf(s[k])
      BY <3>1, <3>3 DEF TableOf
    <3>5. s[k].name \in DOMAIN t
      BY <1>1, <3>1
    <3>6. QED
      BY <3>2, <3>4, <3>5 DEF With
  <2>3. QED
    BY <2>1, <2>2
<1>6. QED
  BY <1>4, <1>5 DEF TableOf

\* A table says nothing of the switches after the first n.
LEMMA TableKept ==
    ASSUME NEW t, NEW s, NEW u, NEW n \in Nat, TableOf(t, s, n),
           \A k \in 1 .. n : u[k] = s[k]
    PROVE  TableOf(t, u, n)
<1>1. {u[k].name : k \in 1 .. n} = {s[k].name : k \in 1 .. n}
  OBVIOUS
<1>2. ASSUME NEW k \in 1 .. n, \A j \in k + 1 .. n : u[j].name # u[k].name
      PROVE  t[u[k].name] = EntryOf(u[k])
  <2>1. \A j \in k + 1 .. n : s[j].name # s[k].name
    BY <1>2
  <2>2. QED
    BY <2>1 DEF TableOf
<1>3. QED
  BY <1>1, <1>2 DEF TableOf

LEMMA WithType ==
    ASSUME NEW t \in Params, NEW n \in Name, NEW e \in Entry
    PROVE  With(t, n, e) \in Params
<1>1. PICK N \in SUBSET Name : t \in [N -> Entry]
  BY DEF Params
<1>2. With(t, n, e) \in [N \cup {n} -> Entry] /\ N \cup {n} \in SUBSET Name
  BY <1>1 DEF With
<1>3. QED
  BY <1>2 DEF Params

LEMMA ModulesType ==
    ASSUME NEW ms \in Modules, NEW m \in Id, NEW t \in Params
    PROVE  With(ms, m, t) \in Modules
<1>1. PICK M \in SUBSET Id : ms \in [M -> Params]
  BY DEF Modules
<1>2. With(ms, m, t) \in [M \cup {m} -> Params] /\ M \cup {m} \in SUBSET Id
  BY <1>1 DEF With
<1>3. QED
  BY <1>2 DEF Modules

\* Modules depend on nothing but the first n that are written.
LEMMA ModulesKept ==
    ASSUME NEW ms, NEW w, NEW v, NEW n \in Nat, ModulesOf(ms, w, n),
           \A k \in 1 .. n : v[k] = w[k]
    PROVE  ModulesOf(ms, v, n)
<1>1. {v[k].id : k \in 1 .. n} = {w[k].id : k \in 1 .. n}
  OBVIOUS
<1>2. ASSUME NEW k \in 1 .. n, v[k].id # None,
             \A j \in k + 1 .. n : v[j].id # v[k].id
      PROVE  TableOf(ms[v[k].id], v[k].switches, Len(v[k].switches))
  <2>1. \A j \in k + 1 .. n : w[j].id # w[k].id
    BY <1>2
  <2>2. QED
    BY <1>2, <2>1 DEF ModulesOf
<1>3. QED
  BY <1>1, <1>2 DEF ModulesOf

\* A module without an id adds none, one with an id its table.
LEMMA ModuleSkipped ==
    ASSUME NEW ms, NEW w, NEW n \in Nat, ModulesOf(ms, w, n), w[n + 1].id = None
    PROVE  ModulesOf(ms, w, n + 1)
<1>1. 1 .. n + 1 = (1 .. n) \cup {n + 1}
  OBVIOUS
<1>2. {w[k].id : k \in 1 .. n + 1} \ {None} = {w[k].id : k \in 1 .. n} \ {None}
  BY <1>1
<1>3. ASSUME NEW k \in 1 .. n + 1, w[k].id # None,
             \A j \in k + 1 .. n + 1 : w[j].id # w[k].id
      PROVE  TableOf(ms[w[k].id], w[k].switches, Len(w[k].switches))
  <2>1. k \in 1 .. n /\ \A j \in k + 1 .. n : w[j].id # w[k].id
    BY <1>3
  <2>2. QED
    BY <1>3, <2>1 DEF ModulesOf
<1>4. QED
  BY <1>2, <1>3 DEF ModulesOf

LEMMA ModuleTaken ==
    ASSUME NEW ms, NEW w, NEW n \in Nat, ModulesOf(ms, w, n), w[n + 1].id # None,
           NEW t, TableOf(t, w[n + 1].switches, Len(w[n + 1].switches))
    PROVE  ModulesOf(With(ms, w[n + 1].id, t), w, n + 1)
<1> DEFINE us == With(ms, w[n + 1].id, t)
<1>1. 1 .. n + 1 = (1 .. n) \cup {n + 1}
  OBVIOUS
<1>2. DOMAIN us = DOMAIN ms \cup {w[n + 1].id}
  BY DEF With
<1>3. DOMAIN us = {w[k].id : k \in 1 .. n + 1} \ {None}
  BY <1>1, <1>2 DEF ModulesOf
<1>4. ASSUME NEW k \in 1 .. n + 1, w[k].id # None,
             \A j \in k + 1 .. n + 1 : w[j].id # w[k].id
      PROVE  TableOf(us[w[k].id], w[k].switches, Len(w[k].switches))
  <2>1. CASE k = n + 1
    BY <2>1 DEF With
  <2>2. CASE k # n + 1
    <3>1. /\ k \in 1 .. n /\ n + 1 \in k + 1 .. n + 1
          /\ \A j \in k + 1 .. n : w[j].id # w[k].id
      BY <1>4, <2>2
    <3>2. w[n + 1].id # w[k].id
      BY <1>4, <3>1
    <3>3. TableOf(ms[w[k].id], w[k].switches, Len(w[k].switches))
      BY <1>4, <3>1 DEF ModulesOf
    <3>4. w[k].id \in DOMAIN ms
      BY <1>4, <3>1 DEF ModulesOf
    <3>5. us[w[k].id] = ms[w[k].id]
      BY <3>2, <3>4 DEF With
    <3>6. QED
      BY <3>3, <3>5
  <2>3. QED
    BY <2>1, <2>2
<1>5. QED
  BY <1>3, <1>4 DEF ModulesOf
-----------------------------------------------------------------------------
(* Texts, and the document with one more module, switch or piece.          *)
Switch == [name : Name \cup {None}, type : Type \cup {None}, text : Text \cup {<<>>}]
WrittenModule == [id : Id \cup {None}, switches : Seq(Switch)]

LEMMA Texts ==
    /\ \A t \in Text \cup {<<>>} : t \in Seq(Piece) /\ Len(t) <= MaxPieces
    /\ \A t \in Seq(Piece) : Len(t) <= MaxPieces => t \in Text \cup {<<>>}
<1>1. MaxPieces \in Nat
  BY BoundAssumption
<1>2. ASSUME NEW t \in Text \cup {<<>>}
      PROVE  t \in Seq(Piece) /\ Len(t) <= MaxPieces
  <2>1. CASE t = <<>>
    BY <1>1, <2>1
  <2>2. CASE t \in Text
    <3>1. PICK n \in 1 .. MaxPieces : t \in [1 .. n -> Piece]
      BY <2>2 DEF Text
    <3>2. QED
      BY <1>1, <3>1
  <2>3. QED
    BY <2>1, <2>2
<1>3. ASSUME NEW t \in Seq(Piece), Len(t) <= MaxPieces
      PROVE  t \in Text \cup {<<>>}
  <2>1. t = <<>> \/ Len(t) \in 1 .. MaxPieces
    BY <1>1, <1>3
  <2>2. t \in [1 .. Len(t) -> Piece]
    OBVIOUS
  <2>3. QED
    BY <2>1, <2>2 DEF Text
<1>4. QED
  BY <1>2, <1>3

LEMMA EntriesTyped ==
    /\ \A type \in Type \cup {None} : Kind(type) \in Type \cup {"unknown", "boolean"}
    /\ \A s \in Switch : EntryOf(s) \in Entry
<1>1. \A type \in Type \cup {None} : Kind(type) \in Type \cup {"unknown", "boolean"}
  BY DEF Kind
<1>2. QED
  BY <1>1 DEF Switch, EntryOf, Entry

LEMMA WrittenType == WrittenInv <=> written \in Seq(WrittenModule)
BY DEF WrittenInv, WrittenModule, Switch

\* The names of the paths the handlers look at.
LEMMA PathsOpen ==
    ASSUME NEW p
    PROVE  /\ p = ModulePath => Len(p) = 3 /\ p[3] = "module"
           /\ p = SwitchPath => Len(p) = 4 /\ p[3] = "module" /\ p[4] = "switch"
           /\ p = Front(ModulePath) => Len(p) = 2
BY Paths

\* The end of a sequence whose last element is changed.
LEMMA LastChanged ==
    ASSUME NEW S, NEW s \in Seq(S), Len(s) > 0, NEW e \in S
    PROVE  LET t == [s EXCEPT ![Len(s)] = e]
           IN  /\ t \in Seq(S) /\ Len(t) = Len(s) /\ t[Len(s)] = e
               /\ \A i \in 1 .. Len(s) - 1 : t[i] = s[i]
<1> DEFINE t == [s EXCEPT ![Len(s)] = e]
<1>1. Len(s) \in 1 .. Len(s)
  OBVIOUS
<1>2. /\ t \in Seq(S) /\ Len(t) = Len(s)
      /\ \A j \in 1 .. Len(s) : t[j] = IF j = Len(s) THEN e ELSE s[j]
  BY <1>1, ExceptSeq
<1>3. \A i \in 1 .. Len(s) - 1 : i \in 1 .. Len(s) /\ i # Len(s)
  OBVIOUS
<1>4. QED
  BY <1>1, <1>2, <1>3

-----------------------------------------------------------------------------
(* The invariant holds of an empty document, and every step keeps it.      *)
LEMMA DocInit == Init => DocInv
<1> SUFFICES ASSUME Init PROVE DocInv
  OBVIOUS
<1>1. /\ nodes = Front(ModulePath) /\ body = <<>> /\ userdata = None
      /\ userdata2 = None /\ modules = <<>> /\ pc = "parse" /\ config = <<>>
      /\ written = <<>>
  BY DEF Init
<1>2. PathInv /\ ~ InModule /\ ~ InSwitch
  BY <1>1, Paths DEF PathInv, InModule, InSwitch
<1>3. DOMAIN modules = {} /\ DOMAIN config = {}
  BY <1>1
<1>4. modules \in Modules
  <2>1. modules \in [{} -> Params]
    BY <1>1
  <2>2. QED
    BY <2>1 DEF Modules
<1>5. TypeOK
  BY <1>1, <1>2, <1>3, <1>4 DEF TypeOK, PathInv
<1>6. WrittenInv /\ Len(written) = 0
  BY <1>1 DEF WrittenInv
<1>7. ModulesOf(modules, written, 0)
  BY <1>3 DEF ModulesOf
<1>8. ModuleInv /\ SwitchInv /\ BuiltInv
  BY <1>1, <1>2, <1>6, <1>7 DEF ModuleInv, SwitchInv, BuiltInv
<1>9. QED
  BY <1>2, <1>5, <1>6, <1>8 DEF DocInv

LEMMA StartModuleStep == ASSUME DocInv, StartModule PROVE DocInv'
<1>1. /\ pc = "parse" /\ nodes' = Append(nodes, "module") /\ nodes' = ModulePath
      /\ UNCHANGED <<pc, config, body, userdata2, modules>>
  BY DEF StartModule, Open
<1>2. PathInv /\ WrittenInv /\ TypeOK /\ ModuleInv /\ SwitchInv
  BY <1>1 DEF DocInv
<1>3. PathInv' /\ Len(nodes) = 2
  <2>1. PathInv' /\ Len(nodes') = Len(nodes) + 1
    BY <1>1, <1>2, PathOpened DEF Elements
  <2>2. Len(nodes) \in Nat
    BY <1>2 DEF PathInv
  <2>3. nodes' = ModulePath
    BY <1>1
  <2>4. Len(nodes') = 3
    BY <2>3, PathsOpen
  <2>5. Len(nodes) = 2
    BY <2>1, <2>2, <2>4, OneBefore
  <2>6. QED
    BY <2>1, <2>5
<1>4. ~ InModule /\ ~ InSwitch /\ InModule' /\ ~ InSwitch'
  <2>1. nodes' = ModulePath
    BY <1>1
  <2>2. Len(nodes') = 3 /\ nodes'[3] = "module"
    BY <2>1, PathsOpen
  <2>3. QED
    BY <1>3, <2>2 DEF InModule, InSwitch
<1>5. userdata = None /\ body = <<>> /\ ModulesOf(modules, written, Len(written))
  BY <1>2, <1>4 DEF ModuleInv, SwitchInv
<1>6. PICK id \in Id \cup {None} :
          /\ written' = Append(written, [id |-> id, switches |-> <<>>])
          /\ userdata' = IF id = None THEN None ELSE [id |-> id, params |-> <<>>]
  BY DEF StartModule
<1>7. PICK n \in Nat, m \in WrittenModule :
          n = Len(written) /\ m = [id |-> id, switches |-> <<>>]
  <2>1. Len(written) \in Nat
    BY <1>2, WrittenType
  <2>2. <<>> \in Seq(Switch)
    OBVIOUS
  <2>3. [id |-> id, switches |-> <<>>] \in WrittenModule
    BY <2>2 DEF WrittenModule
  <2>4. QED
    BY <2>1, <2>3
<1>8. /\ written \in Seq(WrittenModule) /\ written' \in Seq(WrittenModule)
      /\ Len(written') = n + 1 /\ written'[n + 1] = m
      /\ \A k \in 1 .. n : written'[k] = written[k]
  <2>1. written' = Append(written, m)
    BY <1>6, <1>7
  <2>2. written \in Seq(WrittenModule)
    BY <1>2, WrittenType
  <2>3. QED
    BY <1>7, <2>1, <2>2, AppendProperties
<1>9. WrittenInv'
  BY <1>8 DEF WrittenInv, WrittenModule, Switch
<1>10. ModulesOf(modules', written', n)
  BY <1>1, <1>5, <1>7, <1>8, ModulesKept
<1>11. LastModule' = m /\ m.id = id /\ m.switches = <<>> /\ Len(m.switches) = 0
  BY <1>7, <1>8 DEF LastModule
<1>12. id # None => userdata' \in Module /\ userdata' # None /\ userdata'.id = id
                    /\ userdata'.params = <<>>
  <2>1. SUFFICES ASSUME id # None PROVE userdata' \in Module
    BY <1>6, NoneAssumption
  <2>2. <<>> \in [{} -> Entry]
    OBVIOUS
  <2>3. <<>> \in Params
    BY <2>2 DEF Params
  <2>4. QED
    BY <1>6, <2>1, <2>3 DEF Module
<1>13. TableOf(<<>>, <<>>, 0)
  BY DEF TableOf
<1>14. ModuleInv'
  <2>1. Len(written') > 0 /\ Len(written') - 1 = n
    BY <1>8
  <2>2. id = None => userdata' = None
    BY <1>6
  <2>3. ModulesOf(modules', written', Len(written') - 1)
    BY <1>10, <2>1
  <2>4. id # None => TableOf(userdata'.params, m.switches, Len(m.switches))
    BY <1>11, <1>12, <1>13
  <2>5. QED
    BY <1>4, <1>11, <1>12, <2>1, <2>2, <2>3, <2>4 DEF ModuleInv
<1>15. SwitchInv'
  BY <1>1, <1>4, <1>5 DEF SwitchInv
<1>16. TypeOK'
  <2>1. userdata' \in Module \cup {None}
    BY <1>6, <1>12
  <2>2. QED
    BY <1>1, <1>2, <1>3, <2>1 DEF TypeOK, PathInv
<1>17. BuiltInv'
  BY <1>1 DEF BuiltInv
<1>18. QED
  BY <1>3, <1>9, <1>14, <1>15, <1>16, <1>17 DEF DocInv

LEMMA StartOtherStep == ASSUME DocInv, StartOther PROVE DocInv'
<1>1. PICK el \in {"module", "switch", "note"} : nodes' = Append(nodes, el)
  BY DEF StartOther, Open
<1>2. /\ pc = "parse" /\ nodes' # ModulePath /\ nodes' # SwitchPath
      /\ UNCHANGED <<pc, config, body, userdata, userdata2, modules, written>>
  BY DEF StartOther, Open
<1>3. PathInv /\ WrittenInv /\ TypeOK /\ ModuleInv /\ SwitchInv
  BY <1>2 DEF DocInv
<1>4. PathInv' /\ (InModule' <=> InModule) /\ (InSwitch' <=> InSwitch)
  BY <1>1, <1>2, <1>3, OtherOpened DEF Elements
<1>5. TypeOK'
  BY <1>2, <1>3, <1>4 DEF TypeOK, PathInv
<1>6. WrittenInv' /\ BuiltInv'
  BY <1>2, <1>3 DEF WrittenInv, BuiltInv
<1>7. ModuleInv' /\ SwitchInv'
  BY <1>2, <1>3, <1>4 DEF ModuleInv, SwitchInv, LastModule, LastSwitch
<1>8. QED
  BY <1>4, <1>5, <1>6, <1>7 DEF DocInv

LEMMA EndOtherStep == ASSUME DocInv, EndOther PROVE DocInv'
<1>1. /\ pc = "parse" /\ nodes' = Front(nodes)
      /\ nodes \notin {Front(ModulePath), ModulePath, SwitchPath}
      /\ UNCHANGED <<pc, config, body, userdata, userdata2, modules, written>>
  BY DEF EndOther, Close
<1>2. PathInv /\ WrittenInv /\ TypeOK /\ ModuleInv /\ SwitchInv
  BY <1>1 DEF DocInv
<1>3. PathInv' /\ (InModule' <=> InModule) /\ (InSwitch' <=> InSwitch)
  BY <1>1, <1>2, OtherClosed
<1>4. TypeOK'
  BY <1>1, <1>2, <1>3 DEF TypeOK, PathInv
<1>5. WrittenInv' /\ BuiltInv'
  BY <1>1, <1>2 DEF WrittenInv, BuiltInv
<1>6. ModuleInv' /\ SwitchInv'
  BY <1>1, <1>2, <1>3 DEF ModuleInv, SwitchInv, LastModule, LastSwitch
<1>7. QED
  BY <1>3, <1>4, <1>5, <1>6 DEF DocInv

LEMMA StartSwitchStep == ASSUME DocInv, StartSwitch PROVE DocInv'
<1>1. /\ pc = "parse" /\ nodes' = Append(nodes, "switch") /\ nodes' = SwitchPath
      /\ UNCHANGED <<pc, config, body, userdata, modules>>
  BY DEF StartSwitch, Open
<1>2. PathInv /\ WrittenInv /\ TypeOK /\ ModuleInv /\ SwitchInv
  BY <1>1 DEF DocInv
<1>3. PathInv' /\ Len(nodes) = 3 /\ nodes[3] = "module"
  <2>1. PathInv' /\ Len(nodes') = Len(nodes) + 1
        /\ \A i \in 1 .. Len(nodes) : nodes'[i] = nodes[i]
    BY <1>1, <1>2, PathOpened DEF Elements
  <2>2. Len(nodes) \in Nat
    BY <1>2 DEF PathInv
  <2>3. nodes' = SwitchPath
    BY <1>1
  <2>4. Len(nodes') = 4 /\ nodes'[3] = "module"
    BY <2>3, PathsOpen
  <2>5. Len(nodes) = 3
    BY <2>1, <2>2, <2>4, OneBefore
  <2>6. nodes[3] = "module"
    BY <2>1, <2>4, <2>5
  <2>7. QED
    BY <2>1, <2>5, <2>6
<1>4. InModule /\ ~ InSwitch /\ InModule' /\ InSwitch'
  <2>1. nodes' = SwitchPath
    BY <1>1
  <2>2. Len(nodes') = 4 /\ nodes'[3] = "module" /\ nodes'[4] = "switch"
    BY <2>1, PathsOpen
  <2>3. QED
    BY <1>3, <2>2 DEF InModule, InSwitch
<1>5. PICK name \in Name \cup {None}, type \in Type \cup {None} :
          /\ userdata2' = [name |-> name, type |-> Kind(type)]
          /\ written' = [written EXCEPT ![Len(written)].switches =
                            Append(@, [name |-> name, type |-> type,
                                       text |-> <<>>])]
  BY DEF StartSwitch
<1>6. PICK n, m, s : /\ n = Len(written) /\ m = written[n]
                     /\ s = [name |-> name, type |-> type, text |-> <<>>]
  OBVIOUS
<1>7. /\ written \in Seq(WrittenModule) /\ n \in Nat /\ n > 0
      /\ body = <<>> /\ ModulesOf(modules, written, n - 1)
      /\ m.id = None => userdata = None
      /\ m.id # None => /\ userdata # None /\ userdata.id = m.id
                        /\ TableOf(userdata.params, m.switches, Len(m.switches))
  BY <1>2, <1>4, <1>6, WrittenType DEF ModuleInv, SwitchInv, LastModule
<1>8. m \in WrittenModule /\ m.switches \in Seq(Switch) /\ s \in Switch
  <2>1. m \in WrittenModule
    BY <1>6, <1>7, ElementOfSeq
  <2>2. s \in Switch
    BY <1>6 DEF Switch
  <2>3. QED
    BY <2>1, <2>2 DEF WrittenModule
<1>9. PICK ss, l : ss = Append(m.switches, s) /\ l = Len(m.switches)
  OBVIOUS
<1>10. /\ ss \in Seq(Switch) /\ l \in Nat /\ Len(ss) = l + 1 /\ ss[l + 1] = s
       /\ \A i \in 1 .. l : ss[i] = m.switches[i]
  BY <1>8, <1>9, AppendProperties
<1>11. PICK mm : mm = [m EXCEPT !.switches = ss]
  OBVIOUS
<1>12. mm \in WrittenModule /\ mm.id = m.id /\ mm.switches = ss
  BY <1>8, <1>10, <1>11 DEF WrittenModule
<1>13. written' = [written EXCEPT ![n] = mm]
  BY <1>5, <1>6, <1>9, <1>11
<1>14. /\ written' \in Seq(WrittenModule) /\ Len(written') = n /\ written'[n] = mm
       /\ \A k \in 1 .. n - 1 : written'[k] = written[k]
  BY <1>6, <1>7, <1>12, <1>13, LastChanged
<1>15. WrittenInv'
  BY <1>14 DEF WrittenInv, WrittenModule, Switch
<1>16. ModulesOf(modules', written', n - 1)
  <2>1. n - 1 \in Nat /\ modules' = modules
    BY <1>1, <1>7
  <2>2. QED
    BY <1>7, <1>14, <2>1, ModulesKept
<1>17. LastModule' = mm /\ LastSwitch' = s
  BY <1>10, <1>12, <1>14 DEF LastModule, LastSwitch
<1>18. m.id # None => TableOf(userdata'.params, mm.switches, Len(mm.switches) - 1)
  <2>1. SUFFICES ASSUME m.id # None
                 PROVE  TableOf(userdata'.params, mm.switches, Len(mm.switches) - 1)
    OBVIOUS
  <2>2. TableOf(userdata.params, m.switches, l)
    BY <1>7, <1>9, <2>1
  <2>3. TableOf(userdata.params, ss, l)
    BY <1>10, <2>2, TableKept
  <2>4. Len(mm.switches) - 1 = l /\ userdata' = userdata
    BY <1>1, <1>10, <1>12
  <2>5. QED
    BY <1>12, <2>3, <2>4
<1>19. ModuleInv'
  <2>1. Len(written') > 0 /\ ModulesOf(modules', written', Len(written') - 1)
    BY <1>7, <1>14, <1>16
  <2>2. QED
    BY <1>1, <1>4, <1>7, <1>12, <1>17, <1>18, <2>1 DEF ModuleInv
<1>20. SwitchInv'
  <2>1. Len(LastModule'.switches) > 0
    BY <1>10, <1>12, <1>17
  <2>2. body' = LastSwitch'.text /\ userdata2' = [name |-> LastSwitch'.name,
                                                  type |-> Kind(LastSwitch'.type)]
    BY <1>1, <1>5, <1>6, <1>7, <1>17
  <2>3. QED
    BY <1>4, <2>1, <2>2 DEF SwitchInv
<1>21. TypeOK'
  <2>1. userdata2' \in [name : Name \cup {None}, type : Type \cup {"unknown", "boolean"}]
    BY <1>5, EntriesTyped
  <2>2. QED
    BY <1>1, <1>2, <1>3, <2>1 DEF TypeOK, PathInv
<1>22. BuiltInv'
  BY <1>1 DEF BuiltInv
<1>23. QED
  BY <1>3, <1>15, <1>19, <1>20, <1>21, <1>22 DEF DocInv

LEMMA CharacterDataStep == ASSUME DocInv, CharacterData PROVE DocInv'
<1>1. /\ pc = "parse" /\ nodes = SwitchPath /\ Len(body) < MaxPieces
      /\ UNCHANGED <<nodes, userdata, userdata2, modules, pc, config>>
  BY DEF CharacterData
<1>2. PathInv /\ WrittenInv /\ TypeOK /\ ModuleInv /\ SwitchInv
  BY <1>1 DEF DocInv
<1>3. InModule /\ InSwitch /\ InModule' /\ InSwitch' /\ PathInv'
  <2>1. InModule /\ InSwitch
    BY <1>1, <1>2, PathIsModule DEF InSwitch
  <2>2. QED
    BY <1>1, <1>2, <2>1 DEF InModule, InSwitch, PathInv
<1>4. PICK n, m : n = Len(written) /\ m = written[n]
  OBVIOUS
<1>5. PICK l, s : l = Len(m.switches) /\ s = m.switches[l]
  OBVIOUS
<1>6. /\ written \in Seq(WrittenModule) /\ n \in Nat /\ n > 0
      /\ ModulesOf(modules, written, n - 1)
      /\ m.id = None => userdata = None
      /\ m.id # None => /\ userdata # None /\ userdata.id = m.id
                        /\ TableOf(userdata.params, m.switches, l - 1)
  BY <1>2, <1>3, <1>4, <1>5, WrittenType DEF ModuleInv, LastModule
<1>7. /\ l > 0 /\ body = s.text
      /\ userdata2 = [name |-> s.name, type |-> Kind(s.type)]
  BY <1>2, <1>3, <1>4, <1>5 DEF SwitchInv, LastModule, LastSwitch
<1>8. m \in WrittenModule /\ m.switches \in Seq(Switch) /\ s \in Switch /\ l \in Nat
  <2>1. m \in WrittenModule
    BY <1>4, <1>6, ElementOfSeq
  <2>2. m.switches \in Seq(Switch)
    BY <2>1 DEF WrittenModule
  <2>3. l \in Nat
    BY <1>5, <2>2
  <2>4. s \in Switch
    BY <1>5, <1>7, <2>2, <2>3, ElementOfSeq
  <2>5. QED
    BY <2>1, <2>2, <2>3, <2>4
<1>9. PICK p \in Piece :
          /\ body' = Append(body, p)
          /\ written' = [written EXCEPT
                 ![Len(written)].switches[Len(written[Len(written)].switches)].text
                     = Append(@, p)]
  BY DEF CharacterData
<1>10. PICK text : text = Append(body, p)
  OBVIOUS
<1>11. text \in Text \cup {<<>>}
  <2>1. body \in Seq(Piece) /\ Len(body) < MaxPieces /\ MaxPieces \in Nat
    BY <1>1, <1>2, Texts, BoundAssumption DEF TypeOK
  <2>2. text \in Seq(Piece) /\ Len(text) = Len(body) + 1
    BY <1>10, <2>1, AppendProperties
  <2>3. Len(text) <= MaxPieces
    BY <2>1, <2>2
  <2>4. QED
    BY <2>2, <2>3, Texts
<1>12. PICK t : t = [s EXCEPT !.text = text]
  OBVIOUS
<1>13. t \in Switch /\ t.name = s.name /\ t.type = s.type /\ t.text = text
  BY <1>8, <1>11, <1>12 DEF Switch
<1>14. PICK ss : ss = [m.switches EXCEPT ![l] = t]
  OBVIOUS
<1>15. /\ ss \in Seq(Switch) /\ Len(ss) = l /\ ss[l] = t
       /\ \A i \in 1 .. l - 1 : ss[i] = m.switches[i]
  BY <1>5, <1>7, <1>8, <1>13, <1>14, LastChanged
<1>16. PICK mm : mm = [m EXCEPT !.switches = ss]
  OBVIOUS
<1>17. mm \in WrittenModule /\ mm.id = m.id /\ mm.switches = ss
  BY <1>8, <1>15, <1>16 DEF WrittenModule
<1>18. written' = [written EXCEPT ![n] = mm]
  <2>1. written' = [written EXCEPT ![n].switches[l].text = Append(@, p)]
    BY <1>4, <1>5, <1>9
  <2>2. QED
    BY <1>4, <1>5, <1>7, <1>10, <1>12, <1>14, <1>16, <2>1
<1>19. /\ written' \in Seq(WrittenModule) /\ Len(written') = n /\ written'[n] = mm
       /\ \A k \in 1 .. n - 1 : written'[k] = written[k]
  BY <1>4, <1>6, <1>17, <1>18, LastChanged
<1>20. WrittenInv'
  BY <1>19 DEF WrittenInv, WrittenModule, Switch
<1>21. ModulesOf(modules', written', n - 1)
  <2>1. n - 1 \in Nat /\ modules' = modules
    BY <1>1, <1>6
  <2>2. QED
    BY <1>6, <1>19, <2>1, ModulesKept
<1>22. LastModule' = mm /\ LastSwitch' = t
  BY <1>15, <1>17, <1>19 DEF LastModule, LastSwitch
<1>23. m.id # None => TableOf(userdata'.params, mm.switches, Len(mm.switches) - 1)
  <2>1. SUFFICES ASSUME m.id # None
                 PROVE  TableOf(userdata'.params, mm.switches, Len(mm.switches) - 1)
    OBVIOUS
  <2>2. TableOf(userdata.params, m.switches, l - 1) /\ l - 1 \in Nat
    BY <1>6, <1>7, <1>8, <2>1
  <2>3. TableOf(userdata.params, ss, l - 1)
    BY <1>15, <2>2, TableKept
  <2>4. Len(mm.switches) = l /\ userdata' = userdata
    BY <1>1, <1>15, <1>17
  <2>5. QED
    BY <1>17, <2>3, <2>4
<1>24. ModuleInv'
  <2>1. Len(written') > 0 /\ ModulesOf(modules', written', Len(written') - 1)
    BY <1>6, <1>19, <1>21
  <2>2. QED
    BY <1>1, <1>3, <1>6, <1>17, <1>22, <1>23, <2>1 DEF ModuleInv
<1>25. SwitchInv'
  <2>1. Len(LastModule'.switches) > 0
    BY <1>7, <1>15, <1>17, <1>22
  <2>2. body' = LastSwitch'.text /\ userdata2' = [name |-> LastSwitch'.name,
                                                  type |-> Kind(LastSwitch'.type)]
    BY <1>1, <1>7, <1>9, <1>10, <1>13, <1>22
  <2>3. QED
    BY <1>3, <2>1, <2>2 DEF SwitchInv
<1>26. TypeOK'
  <2>1. body' \in Text \cup {<<>>}
    BY <1>9, <1>10, <1>11
  <2>2. QED
    BY <1>1, <1>2, <2>1 DEF TypeOK
<1>27. BuiltInv'
  BY <1>1 DEF BuiltInv
<1>28. QED
  BY <1>3, <1>20, <1>24, <1>25, <1>26, <1>27 DEF DocInv

LEMMA EndSwitchStep == ASSUME DocInv, EndSwitch PROVE DocInv'
<1>1. /\ pc = "parse" /\ nodes = SwitchPath /\ nodes' = Front(nodes)
      /\ body' = <<>> /\ userdata2' = None
      /\ UNCHANGED <<modules, config, written>>
  BY DEF EndSwitch, Close
<1>2. PathInv /\ WrittenInv /\ TypeOK /\ ModuleInv /\ SwitchInv
  BY <1>1 DEF DocInv
<1>3. InModule /\ InSwitch /\ Len(nodes) = 4 /\ Len(nodes) >= 3
  <2>1. InSwitch /\ Len(nodes) = 4
    BY <1>1, <1>2, PathIsModule
  <2>2. QED
    BY <2>1 DEF InSwitch
<1>4. PathInv'
  BY <1>1, <1>2, <1>3, PathClosed
<1>5. InModule' /\ ~ InSwitch'
  <2>1. Len(nodes') = Len(nodes) - 1
        /\ \A i \in 1 .. Len(nodes) - 1 : nodes'[i] = nodes[i]
    BY <1>1, <1>2, <1>3, PathClosed
  <2>2. Len(nodes') = 3 /\ nodes'[3] = nodes[3]
    BY <1>3, <2>1
  <2>3. QED
    BY <1>3, <2>2 DEF InModule, InSwitch
<1>6. PICK n, m : n = Len(written) /\ m = written[n]
  OBVIOUS
<1>7. PICK l, s : l = Len(m.switches) /\ s = m.switches[l]
  OBVIOUS
<1>8. /\ written \in Seq(WrittenModule) /\ n \in Nat /\ n > 0
      /\ ModulesOf(modules, written, n - 1)
      /\ m.id = None => userdata = None
      /\ m.id # None => /\ userdata # None /\ userdata.id = m.id
                        /\ TableOf(userdata.params, m.switches, l - 1)
  BY <1>2, <1>3, <1>6, <1>7, WrittenType DEF ModuleInv, LastModule
<1>9. /\ l > 0 /\ body = s.text
      /\ userdata2 = [name |-> s.name, type |-> Kind(s.type)]
  BY <1>2, <1>3, <1>6, <1>7 DEF SwitchInv, LastModule, LastSwitch
<1>10. m \in WrittenModule /\ m.switches \in Seq(Switch) /\ s \in Switch /\ l \in Nat
  <2>1. m \in WrittenModule
    BY <1>6, <1>8, ElementOfSeq
  <2>2. m.switches \in Seq(Switch)
    BY <2>1 DEF WrittenModule
  <2>3. l \in Nat
    BY <1>7, <2>2
  <2>4. s \in Switch
    BY <1>7, <1>9, <2>2, <2>3, ElementOfSeq
  <2>5. QED
    BY <2>1, <2>2, <2>3, <2>4
<1>11. EntryOf(s) = [type |-> userdata2.type, value |-> body] /\ userdata2.name = s.name
  BY <1>9 DEF EntryOf
<1>12. /\ userdata = None => userdata' = None /\ pc' = pc
       /\ userdata # None /\ s.name = None => pc' = "crashed" /\ userdata' = userdata
       /\ userdata # None /\ s.name # None =>
             /\ userdata' = [userdata EXCEPT !.params = With(@, s.name, EntryOf(s))]
             /\ pc' = pc
  <2>1. CASE userdata = None
    BY <2>1 DEF EndSwitch
  <2>2. CASE userdata # None /\ s.name = None
    BY <1>11, <2>2 DEF EndSwitch
  <2>3. CASE userdata # None /\ s.name # None
    BY <1>11, <2>3 DEF EndSwitch
  <2>4. QED
    BY <2>1, <2>2, <2>3
<1>13. userdata # None /\ s.name # None =>
          /\ userdata' \in Module /\ userdata' # None /\ userdata'.id = userdata.id
          /\ userdata'.params = With(userdata.params, s.name, EntryOf(s))
  <2>1. SUFFICES ASSUME userdata # None, s.name # None
                 PROVE  /\ userdata' \in Module /\ userdata' # None
                        /\ userdata'.id = userdata.id
                        /\ userdata'.params = With(userdata.params, s.name, EntryOf(s))
    OBVIOUS
  <2>2. userdata \in Module
    BY <1>2, <2>1 DEF TypeOK
  <2>3. userdata.id \in Id /\ userdata.params \in Params
    BY <2>2 DEF Module
  <2>4. s.name \in Name /\ EntryOf(s) \in Entry
    BY <1>10, <2>1, EntriesTyped DEF Switch
  <2>5. PICK ps : ps = With(userdata.params, s.name, EntryOf(s))
    OBVIOUS
  <2>6. ps \in Params
    BY <2>3, <2>4, <2>5, WithType
  <2>7. userdata' = [userdata EXCEPT !.params = ps]
    BY <1>12, <2>1, <2>5
  <2>8. userdata' \in Module /\ userdata'.id = userdata.id /\ userdata'.params = ps
    BY <2>2, <2>6, <2>7 DEF Module
  <2>9. userdata' # None
    BY <2>8, NoneAssumption
  <2>10. QED
    BY <2>5, <2>8, <2>9
<1>14. ModuleInv' \/ pc' = "crashed"
  <2>1. SUFFICES ASSUME pc' # "crashed" PROVE ModuleInv'
    OBVIOUS
  <2>2. Len(written') > 0 /\ ModulesOf(modules', written', Len(written') - 1)
    BY <1>1, <1>6, <1>8
  <2>3. LastModule' = m
    BY <1>1, <1>6 DEF LastModule
  <2>4. CASE m.id = None
    BY <1>5, <1>8, <1>12, <2>2, <2>3, <2>4 DEF ModuleInv
  <2>5. CASE m.id # None
    <3>1. userdata # None /\ userdata.id = m.id /\ s.name # None
          /\ TableOf(userdata.params, m.switches, l - 1)
      BY <1>8, <1>12, <2>1, <2>5
    <3>2. l - 1 \in Nat /\ s = m.switches[(l - 1) + 1] /\ (l - 1) + 1 = l
      BY <1>7, <1>9, <1>10
    <3>3. TableOf(With(userdata.params, s.name, EntryOf(s)), m.switches, (l - 1) + 1)
      BY <3>1, <3>2, TableTakes
    <3>4. TableOf(userdata'.params, m.switches, Len(m.switches))
      BY <1>7, <1>13, <3>1, <3>2, <3>3
    <3>5. userdata' # None /\ userdata'.id = m.id
      BY <1>13, <3>1
    <3>6. QED
      BY <1>5, <2>2, <2>3, <2>5, <3>4, <3>5 DEF ModuleInv
  <2>6. QED
    BY <2>4, <2>5
<1>15. SwitchInv'
  BY <1>1, <1>5 DEF SwitchInv
<1>16. TypeOK'
  <2>1. userdata' \in Module \cup {None} /\ pc' \in {"parse", "crashed"}
    BY <1>1, <1>2, <1>12, <1>13 DEF TypeOK
  <2>2. QED
    BY <1>1, <1>2, <1>4, <2>1 DEF TypeOK, PathInv
<1>17. WrittenInv'
  BY <1>1, <1>2 DEF WrittenInv
<1>18. BuiltInv'
  <2>1. pc' \in {"parse", "crashed"}
    BY <1>1, <1>12
  <2>2. QED
    BY <2>1 DEF BuiltInv
<1>19. QED
  BY <1>4, <1>14, <1>15, <1>16, <1>17, <1>18 DEF DocInv

LEMMA EndModuleStep == ASSUME DocInv, EndModule PROVE DocInv'
<1>1. /\ pc = "parse" /\ nodes = ModulePath /\ nodes' = Front(nodes)
      /\ modules' = IF userdata = None THEN modules
                    ELSE With(modules, userdata.id, userdata.params)
      /\ userdata' = None /\ userdata2' = None
      /\ UNCHANGED <<body, pc, config, written>>
  BY DEF EndModule, Close
<1>2. PathInv /\ WrittenInv /\ TypeOK /\ ModuleInv /\ SwitchInv
  BY <1>1 DEF DocInv
<1>3. InModule /\ ~ InSwitch /\ Len(nodes) = 3 /\ Len(nodes) >= 3
  <2>1. InModule /\ Len(nodes) = 3
    BY <1>1, <1>2, PathIsModule
  <2>2. QED
    BY <2>1 DEF InSwitch
<1>4. PathInv'
  BY <1>1, <1>2, <1>3, PathClosed
<1>5. ~ InModule' /\ ~ InSwitch'
  <2>1. Len(nodes') = Len(nodes) - 1
    BY <1>1, <1>2, <1>3, PathClosed
  <2>2. Len(nodes') = 2
    BY <1>3, <2>1
  <2>3. QED
    BY <2>2 DEF InModule, InSwitch
<1>6. PICK n, m : n = Len(written) - 1 /\ m = written[Len(written)]
  OBVIOUS
<1>7. /\ written \in Seq(WrittenModule) /\ n \in Nat /\ Len(written) = n + 1
      /\ m = written[n + 1]
  <2>1. written \in Seq(WrittenModule) /\ Len(written) > 0
    BY <1>2, <1>3, WrittenType DEF ModuleInv
  <2>2. QED
    BY <1>6, <2>1
<1>8. /\ ModulesOf(modules, written, n)
      /\ m.id = None => userdata = None
      /\ m.id # None => /\ userdata # None /\ userdata.id = m.id
                        /\ TableOf(userdata.params, m.switches, Len(m.switches))
  BY <1>2, <1>3, <1>6 DEF ModuleInv, LastModule
<1>9. ModulesOf(modules', written', n + 1)
  <2>1. CASE m.id = None
    <3>1. modules' = modules /\ written' = written /\ written[n + 1].id = None
      BY <1>1, <1>7, <1>8, <2>1
    <3>2. ModulesOf(modules, written, n + 1)
      BY <1>7, <1>8, <3>1, ModuleSkipped
    <3>3. QED
      BY <3>1, <3>2
  <2>2. CASE m.id # None
    <3>1. /\ modules' = With(modules, written[n + 1].id, userdata.params)
          /\ written' = written /\ written[n + 1].id # None
          /\ TableOf(userdata.params, written[n + 1].switches,
                     Len(written[n + 1].switches))
      BY <1>1, <1>7, <1>8, <2>2
    <3>2. ModulesOf(With(modules, written[n + 1].id, userdata.params), written, n + 1)
      BY <1>7, <1>8, <3>1, ModuleTaken
    <3>3. QED
      BY <3>1, <3>2
  <2>3. QED
    BY <2>1, <2>2
<1>10. ModuleInv'
  <2>1. ModulesOf(modules', written', Len(written'))
    BY <1>1, <1>7, <1>9
  <2>2. QED
    BY <1>1, <1>5, <2>1 DEF ModuleInv
<1>11. SwitchInv'
  BY <1>1, <1>2, <1>3, <1>5 DEF SwitchInv
<1>12. modules' \in Modules
  <2>1. CASE userdata = None
    BY <1>1, <1>2, <2>1 DEF TypeOK
  <2>2. CASE userdata # None
    <3>1. userdata.id \in Id /\ userdata.params \in Params /\ modules \in Modules
      BY <1>2, <2>2 DEF TypeOK, Module
    <3>2. QED
      BY <1>1, <2>2, <3>1, ModulesType
  <2>3. QED
    BY <2>1, <2>2
<1>13. TypeOK'
  BY <1>1, <1>2, <1>4, <1>12 DEF TypeOK, PathInv
<1>14. WrittenInv' /\ BuiltInv'
  BY <1>1, <1>2 DEF WrittenInv, BuiltInv
<1>15. QED
  BY <1>4, <1>10, <1>11, <1>13, <1>14 DEF DocInv

LEMMA EndDocumentStep == ASSUME DocInv, EndDocument \/ ParseError PROVE DocInv'
<1>1. /\ pc = "parse" /\ pc' \in {"parsed", "failed"}
      /\ pc' = "parsed" => nodes = Front(ModulePath)
      /\ UNCHANGED <<nodes, body, userdata, userdata2, modules, config, written>>
  BY DEF EndDocument, ParseError, reader
<1>2. PathInv /\ WrittenInv /\ TypeOK /\ ModuleInv /\ SwitchInv
  BY <1>1 DEF DocInv
<1>3. pc' = "parsed" => ~ InModule
  <2>1. SUFFICES ASSUME pc' = "parsed" PROVE Len(nodes) = 2
    BY DEF InModule
  <2>2. QED
    BY <1>1, <1>2, <2>1, PathIsModule
<1>4. BuiltInv'
  BY <1>1, <1>3 DEF BuiltInv, InModule
<1>5. PathInv' /\ WrittenInv' /\ TypeOK'
  BY <1>1, <1>2 DEF PathInv, WrittenInv, TypeOK
<1>6. ModuleInv' /\ SwitchInv'
  BY <1>1, <1>2 DEF ModuleInv, SwitchInv, InModule, InSwitch, LastModule, LastSwitch
<1>7. QED
  BY <1>4, <1>5, <1>6 DEF DocInv

LEMMA BuildStep == ASSUME DocInv, Build PROVE DocInv'
<1>1. /\ pc = "parsed" /\ pc' = "built"
      /\ UNCHANGED <<nodes, body, userdata, userdata2, modules, written>>
  BY DEF Build, reader
<1>2. PICK answered \in [Id \X Name -> BOOLEAN] :
         config' = [m \in DOMAIN modules |->
                       [n \in DOMAIN modules[m] |->
                           Element(modules[m][n], answered[<<m, n>>])]]
  BY DEF Build
<1>3. PathInv /\ WrittenInv /\ TypeOK /\ ModuleInv /\ SwitchInv /\ ~ InModule
  BY <1>1 DEF DocInv, BuiltInv
<1>4. BuiltInv'
  <2>1. BuiltFrom(config', modules', answered)
    BY <1>1, <1>2 DEF BuiltFrom
  <2>2. QED
    BY <1>1, <1>3, <2>1 DEF BuiltInv, InModule
<1>5. DOMAIN config' \subseteq Id
  BY <1>2, <1>3 DEF TypeOK, Modules
<1>6. PathInv' /\ WrittenInv' /\ TypeOK'
  BY <1>1, <1>3, <1>5 DEF PathInv, WrittenInv, TypeOK
<1>7. ModuleInv' /\ SwitchInv'
  BY <1>1, <1>3 DEF ModuleInv, SwitchInv, InModule, InSwitch, LastModule, LastSwitch
<1>8. QED
  BY <1>4, <1>6, <1>7 DEF DocInv

LEMMA DocStep == ASSUME DocInv, [Next]_vars PROVE DocInv'
<1>1. CASE UNCHANGED vars
  <2>1. UNCHANGED <<nodes, body, userdata, userdata2, modules, pc, config, written>>
    BY <1>1 DEF vars, reader
  <2>2. QED
    BY <2>1 DEF DocInv, PathInv, WrittenInv, TypeOK, BuiltInv, ModuleInv, SwitchInv,
                InModule, InSwitch, LastModule, LastSwitch
<1>2. CASE Next
  BY <1>2, StartModuleStep, StartSwitchStep, StartOtherStep, CharacterDataStep,
     EndSwitchStep, EndModuleStep, EndOtherStep, EndDocumentStep, BuildStep DEF Next
<1>3. QED
  BY <1>1, <1>2

LEMMA DocAlways == Spec => []DocInv
<1>1. Init => DocInv
  BY DocInit
<1>2. DocInv /\ [Next]_vars => DocInv'
  BY DocStep
<1>3. QED
  BY <1>1, <1>2, PTL DEF Spec

-----------------------------------------------------------------------------
(* Induction's end: a set of numbers that is bounded has a greatest one.   *)
LEMMA Greatest ==
    ASSUME NEW n \in Nat, NEW T \in SUBSET (1 .. n), T # {}
    PROVE  /\ Max(T) \in T
           /\ \A k \in T : Max(T) >= k
<1>1. \E x \in T : \A y \in T : x >= y
  <2>1. IsWellFoundedOn(OpToRel(<, Nat), Nat)
    BY NatLessThanWellFounded
  <2>2. PICK R : R = OpToRel(<, Nat)
    OBVIOUS
  <2>3. \A i, j \in Nat : <<i, j>> \in R <=> i < j
    BY <2>2 DEF OpToRel
  <2>4. PICK D : D = {n - k : k \in T}
    OBVIOUS
  <2>5. D \subseteq Nat /\ D # {}
    <3>1. \A k \in T : k \in 1 .. n
      OBVIOUS
    <3>2. \A k \in T : n - k \in Nat
      BY <3>1
    <3>3. QED
      BY <2>4, <3>2
  <2>6. \E d \in D : \A e \in D : ~ (<<e, d>> \in R)
    BY <2>1, <2>2, <2>5, WFMin
  <2>7. PICK d \in D : \A e \in D : ~ (<<e, d>> \in R)
    BY <2>6
  <2>8. \A e \in D : ~ (e < d)
    BY <2>3, <2>5, <2>7
  <2>9. PICK x \in T : d = n - x
    BY <2>4
  <2>10. ASSUME NEW y \in T PROVE x >= y
    <3>1. n - y \in D
      BY <2>4
    <3>2. ~ (n - y < n - x)
      BY <2>8, <2>9, <3>1
    <3>3. x \in Int /\ y \in Int
      OBVIOUS
    <3>4. QED
      BY <3>2, <3>3
  <2>11. QED
    BY <2>10
<1>2. QED
  BY <1>1 DEF Max

\* The entry of a name in the table of a module's switches.
Places(s, n) == {k \in DOMAIN s : s[k].name = n}

LEMMA TableFinds ==
    ASSUME NEW s \in Seq(Switch), NEW t, TableOf(t, s, Len(s)), NEW n,
           NEW at, at = Places(s, n)
    PROVE  /\ n \in DOMAIN t <=> at # {}
           /\ at # {} => t[n] = EntryOf(s[Max(at)])
<1>1. /\ Len(s) \in Nat /\ DOMAIN s = 1 .. Len(s)
      /\ at = {k \in DOMAIN s : s[k].name = n}
  BY DEF Places
<1>2. n \in DOMAIN t <=> at # {}
  BY <1>1 DEF TableOf
<1>3. ASSUME at # {} PROVE t[n] = EntryOf(s[Max(at)])
  <2>1. at \in SUBSET (1 .. Len(s))
    BY <1>1
  <2>2. Max(at) \in at /\ \A k \in at : Max(at) >= k
    BY <1>1, <1>3, <2>1, Greatest
  <2>3. PICK k : k = Max(at)
    OBVIOUS
  <2>4. k \in 1 .. Len(s) /\ s[k].name = n /\ \A j \in at : k >= j
    BY <1>1, <2>2, <2>3
  <2>5. \A j \in k + 1 .. Len(s) : s[j].name # s[k].name
    <3>1. SUFFICES ASSUME NEW j \in k + 1 .. Len(s), s[j].name = n PROVE FALSE
      BY <2>4
    <3>2. j \in 1 .. Len(s) /\ ~ (k >= j)
      BY <2>4
    <3>3. j \in at
      BY <1>1, <3>1, <3>2
    <3>4. QED
      BY <2>4, <3>2, <3>3
  <2>6. QED
    BY <2>3, <2>4, <2>5 DEF TableOf
<1>4. QED
  BY <1>2, <1>3

\* The table of an id in the modules that are written.
LEMMA ModulesFind ==
    ASSUME written \in Seq(WrittenModule), ModulesOf(modules, written, Len(written)),
           NEW m \in Id
    PROVE  /\ m \in DOMAIN modules <=> WrittenModules(m) # {}
           /\ WrittenModules(m) # {} =>
                 LET s == written[Max(WrittenModules(m))].switches
                 IN  s \in Seq(Switch) /\ TableOf(modules[m], s, Len(s))
<1> DEFINE at == WrittenModules(m)
<1>1. /\ Len(written) \in Nat /\ DOMAIN written = 1 .. Len(written)
      /\ m # None /\ at = {k \in DOMAIN written : written[k].id = m}
  BY NoneAssumption DEF WrittenModules
<1>2. m \in DOMAIN modules <=> at # {}
  BY <1>1 DEF ModulesOf
<1>3. ASSUME at # {}
      PROVE  LET s == written[Max(at)].switches
             IN  s \in Seq(Switch) /\ TableOf(modules[m], s, Len(s))
  <2>1. at \in SUBSET (1 .. Len(written))
    BY <1>1
  <2>2. Max(at) \in at /\ \A k \in at : Max(at) >= k
    BY <1>1, <1>3, <2>1, Greatest
  <2>3. PICK k : k = Max(at)
    OBVIOUS
  <2>4. k \in 1 .. Len(written) /\ written[k].id = m /\ \A j \in at : k >= j
    BY <1>1, <2>2, <2>3
  <2>5. \A j \in k + 1 .. Len(written) : written[j].id # written[k].id
    <3>1. SUFFICES ASSUME NEW j \in k + 1 .. Len(written), written[j].id = m
                   PROVE  FALSE
      BY <2>4
    <3>2. j \in 1 .. Len(written) /\ ~ (k >= j)
      BY <2>4
    <3>3. j \in at
      BY <1>1, <3>1, <3>2
    <3>4. QED
      BY <2>4, <3>2, <3>3
  <2>6. TableOf(modules[m], written[k].switches, Len(written[k].switches))
    BY <1>1, <2>4, <2>5 DEF ModulesOf
  <2>7. written[k] \in WrittenModule
    BY <2>4, ElementOfSeq
  <2>8. written[k].switches \in Seq(Switch)
    BY <2>7 DEF WrittenModule
  <2>9. QED
    BY <2>3, <2>6, <2>8
<1>4. QED
  BY <1>2, <1>3

-----------------------------------------------------------------------------
(* What a switch means, and what is made of it and of the value asked for. *)

LEMMA Kinds ==
    ASSUME NEW w \in Switch
    PROVE  /\ w.type = None => EntryOf(w).type = "unknown"
           /\ w.type = "other" => EntryOf(w).type = "boolean"
           /\ w.type \notin {None, "other"} =>
                 EntryOf(w).type = w.type /\ w.type \in Type
<1>1. w.type \in Type \cup {None} /\ None \notin Type
  BY NoneAssumption, TypeAssumption DEF Switch
<1>2. None # "other"
  BY NoneAssumption DEF Types
<1>3. QED
  BY <1>1, <1>2 DEF EntryOf, Kind

\* The place a file is taken from, when the repository answers and when not.
PlaceOf(t, up) == IF up /\ Remote[t] \notin {None, {}} THEN Remote ELSE Local

LEMMA FromPlace ==
    ASSUME NEW t \in Text, NEW up \in BOOLEAN
    PROVE  /\ File(t, up) = PlaceOf(t, up)[t]
           /\ PlaceOf(t, up) \in {Remote, Local}
           /\ File(t, up) # None => File(t, up) \in SUBSET Text
<1>1. File(t, up) = PlaceOf(t, up)[t] /\ PlaceOf(t, up) \in {Remote, Local}
  BY DEF File, PlaceOf
<1>2. Remote[t] \in (SUBSET Text) \cup {None} /\ Local[t] \in (SUBSET Text) \cup {None}
  BY TextAssumption
<1>3. File(t, up) \in (SUBSET Text) \cup {None}
  BY <1>2 DEF File
<1>4. QED
  BY <1>1, <1>3

\* A switch with one value.
LEMMA SingleMeans ==
    ASSUME NEW w \in Switch, NEW up \in BOOLEAN, NEW v \in Text, NEW place,
           w.type \in {None, "boolean", "other", "long", "string", "regex"}
                \/ w.text = <<>>
    PROVE  Enables(Element(EntryOf(w), up), v) <=> Says(w, place, v)
<1>1. EntryOf(w).value = w.text /\ w.text \in Text \cup {<<>>}
  BY DEF EntryOf, Switch
<1>2. PICK e : e = Element(EntryOf(w), up)
  OBVIOUS
<1>3. e.type = EntryOf(w).type /\ e.value = ValueOf(EntryOf(w), up)
  BY <1>2 DEF Element
<1>4. CASE w.text = <<>> \/ w.type = None
  <2>1. EntryOf(w).value = <<>> \/ EntryOf(w).type = "unknown"
    BY <1>1, <1>4, Kinds
  <2>4. e.value = Null
    BY <1>3, <2>1 DEF ValueOf
  <2>2. ~Enables(e, v)
    BY <2>4 DEF Enables
  <2>3. QED
    BY <1>2, <1>4, <2>2 DEF Says, Silent
<1>5. CASE w.text # <<>> /\ w.type # None
  <2>1. w.text \in Text /\ StandsFor(w, place) = {w.text}
        /\ w.type \in {"boolean", "other", "long", "string", "regex"}
    BY <1>1, <1>5 DEF StandsFor
  <2>2. CASE w.type \in {"boolean", "other"}
    <3>1. e.type = "boolean" /\ e.value = Word(Boolean(w.text))
      BY <1>1, <1>3, <1>5, <2>2, Kinds DEF ValueOf
    <3>2. Enables(e, v) <=> Boolean(w.text) # 0 /\ Boolean(v) = Boolean(w.text)
      BY <3>1 DEF Enables, Word, Null
    <3>3. Says(w, place, v) <=> w.text = <<"on">> /\ v = <<"on">>
      BY <1>5, <2>1, <2>2 DEF Says, Silent, Same
    <3>4. QED
      BY <1>2, <3>2, <3>3 DEF Boolean
  <2>3. CASE w.type = "long"
    <3>1. e.type = "long" /\ e.value = Word(Long[w.text])
      BY <1>1, <1>3, <1>5, <2>3, Kinds DEF ValueOf
    <3>2. Enables(e, v) <=> Long[w.text] # 0 /\ Long[v] = Long[w.text]
      BY <3>1 DEF Enables, Word, Null
    <3>3. Says(w, place, v) <=> Long[w.text] # 0 /\ Long[w.text] = Long[v]
      BY <1>5, <2>1, <2>3 DEF Says, Silent, Same
    <3>4. QED
      BY <1>2, <3>2, <3>3
  <2>4. CASE w.type = "string"
    <3>1. e.type = "string" /\ e.value = Pointer(w.text)
      BY <1>1, <1>3, <1>5, <2>4, Kinds DEF ValueOf
    <3>2. Enables(e, v) <=> v = w.text
      BY <3>1 DEF Enables, Word, Null, Pointer
    <3>3. Says(w, place, v) <=> w.text = v
      BY <1>5, <2>1, <2>4 DEF Says, Silent, Same
    <3>4. QED
      BY <1>2, <3>2, <3>3
  <2>5. CASE w.type = "regex"
    <3>1. e.type = "regex" /\ e.value = Pointer(w.text)
      BY <1>1, <1>3, <1>5, <2>5, Kinds DEF ValueOf
    <3>2. Enables(e, v) <=> <<w.text, v>> \in Regex
      BY <3>1 DEF Enables, Word, Null, Pointer
    <3>3. Says(w, place, v) <=> <<w.text, v>> \in Regex
      BY <1>5, <2>1, <2>5 DEF Says, Silent, Same
    <3>4. QED
      BY <1>2, <3>2, <3>3
  <2>6. QED
    BY <2>1, <2>2, <2>3, <2>4, <2>5
<1>6. QED
  BY <1>4, <1>5

\* A switch with a list, whether its elements stand in the text or in a file:
\* the numbers, texts or expressions that are kept against the elements.
LEMMA LongsMean ==
    ASSUME NEW texts \in SUBSET Text, NEW v \in Text, NEW type,
           type \in {"longArray", "longFile"}
    PROVE  Enables([type |-> type, value |-> Pointer(Longs(texts))], v)
               <=> \E t \in texts : Same(type, t, v)
<1>1. PICK e : e = [type |-> type, value |-> Pointer(Longs(texts))]
  OBVIOUS
<1>2. Enables(e, v) <=> Long[v] \in Longs(texts)
  BY <1>1 DEF Enables, Pointer, Null, Word
<1>3. Enables(e, v) <=> \E t \in texts : Long[t] = Long[v]
  BY <1>2 DEF Longs
<1>4. QED
  BY <1>1, <1>3 DEF Same

LEMMA StringsMean ==
    ASSUME NEW texts \in SUBSET Text, NEW v \in Text, NEW type,
           type \in {"stringArray", "stringFile"}
    PROVE  Enables([type |-> type, value |-> Pointer(texts)], v)
               <=> \E t \in texts : Same(type, t, v)
<1>1. PICK e : e = [type |-> type, value |-> Pointer(texts)]
  OBVIOUS
<1>2. Enables(e, v) <=> v \in texts
  BY <1>1 DEF Enables, Pointer, Null, Word
<1>3. \A t : Same(type, t, v) <=> t = v
  BY DEF Same
<1>4. QED
  BY <1>1, <1>2, <1>3

LEMMA RegexesMean ==
    ASSUME NEW texts \in SUBSET Text, NEW v \in Text, NEW type,
           type \in {"regexArray", "regexFile"},
           NEW x, texts \cap Compiles \subseteq x, x \subseteq texts
    PROVE  Enables([type |-> type, value |-> Pointer(x)], v)
               <=> \E t \in texts : Same(type, t, v)
<1>1. PICK e : e = [type |-> type, value |-> Pointer(x)]
  OBVIOUS
<1>2. Enables(e, v) <=> \E t \in x : <<t, v>> \in Regex
  BY <1>1 DEF Enables, Pointer, Null, Word
<1>3. \A t : Same(type, t, v) <=> <<t, v>> \in Regex
  BY DEF Same
<1>4. \A t : <<t, v>> \in Regex => t \in Compiles
  BY TextAssumption
<1>5. QED
  BY <1>1, <1>2, <1>3, <1>4

LEMMA ArrayMeans ==
    ASSUME NEW w \in Switch, NEW up \in BOOLEAN, NEW v \in Text, NEW place,
           w.text # <<>>, w.type \in {"longArray", "stringArray", "regexArray"}
    PROVE  Enables(Element(EntryOf(w), up), v) <=> Says(w, place, v)
<1>1. EntryOf(w).value = w.text /\ w.text \in Text
  BY DEF EntryOf, Switch
<1>2. PICK texts : texts = List[w.text]
  OBVIOUS
<1>3. texts \in SUBSET Text /\ StandsFor(w, place) = texts
  BY <1>1, <1>2, TextAssumption DEF StandsFor
<1>4. w.type # None /\ EntryOf(w).type = w.type
  <2>1. w.type # None /\ w.type # "other"
    BY NoneAssumption DEF Types
  <2>2. QED
    BY <2>1, Kinds
<1>5. Element(EntryOf(w), up) =
         [type |-> w.type, value |-> IF w.type = "longArray"
                                     THEN Pointer(Longs(texts)) ELSE Pointer(texts)]
  BY <1>1, <1>2, <1>4 DEF Element, ValueOf
<1>6. Enables(Element(EntryOf(w), up), v) <=> \E t \in texts : Same(w.type, t, v)
  <2>1. PICK type : type = w.type
    OBVIOUS
  <2>2. CASE type = "longArray"
    <3>1. Element(EntryOf(w), up) = [type |-> type, value |-> Pointer(Longs(texts))]
      BY <1>5, <2>1, <2>2
    <3>2. QED
      BY <1>3, <2>1, <2>2, <3>1, LongsMean
  <2>3. CASE type = "stringArray"
    <3>1. Element(EntryOf(w), up) = [type |-> type, value |-> Pointer(texts)]
      BY <1>5, <2>1, <2>3
    <3>2. QED
      BY <1>3, <2>1, <2>3, <3>1, StringsMean
  <2>4. CASE type = "regexArray"
    <3>1. Element(EntryOf(w), up) = [type |-> type, value |-> Pointer(texts)]
      BY <1>5, <2>1, <2>4
    <3>2. texts \cap Compiles \subseteq texts
      OBVIOUS
    <3>3. QED
      BY <1>3, <2>1, <2>4, <3>1, <3>2, RegexesMean
  <2>5. QED
    BY <2>1, <2>2, <2>3, <2>4
<1>7. Says(w, place, v) <=> \E t \in texts : Same(w.type, t, v)
  BY <1>3, <1>4 DEF Says, Silent
<1>8. QED
  BY <1>6, <1>7

LEMMA FileMeans ==
    ASSUME NEW w \in Switch, NEW up \in BOOLEAN, NEW v \in Text,
           w.text # <<>>, w.type \in {"longFile", "stringFile", "regexFile"}
    PROVE  Enables(Element(EntryOf(w), up), v) <=> Says(w, PlaceOf(w.text, up), v)
<1>1. EntryOf(w).value = w.text /\ w.text \in Text
  BY DEF EntryOf, Switch
<1>2. PICK lines : lines = File(w.text, up)
  OBVIOUS
<1>3. PICK place : place = PlaceOf(w.text, up)
  OBVIOUS
<1>4. place[w.text] = lines /\ (lines # None => lines \in SUBSET Text)
  BY <1>1, <1>2, <1>3, FromPlace
<1>5. w.type # None /\ EntryOf(w).type = w.type
  <2>1. w.type # None /\ w.type # "other"
    BY NoneAssumption DEF Types
  <2>2. QED
    BY <2>1, Kinds
<1>6. Element(EntryOf(w), up) = [type |-> w.type, value |-> BuildFromFile(w.type, lines)]
  BY <1>1, <1>2, <1>5 DEF Element, ValueOf
<1>7. CASE lines = None
  <2>1. ~Enables(Element(EntryOf(w), up), v)
    BY <1>6, <1>7 DEF Enables, BuildFromFile
  <2>2. StandsFor(w, place) = {}
    BY <1>4, <1>7 DEF StandsFor
  <2>3. QED
    BY <1>3, <2>1, <2>2 DEF Says
<1>8. CASE lines # None
  <2>1. Enables(Element(EntryOf(w), up), v) <=> \E t \in lines : Same(w.type, t, v)
    <3>1. PICK type : type = w.type
      OBVIOUS
    <3>2. CASE type = "longFile"
      <4>1. Element(EntryOf(w), up) = [type |-> type, value |-> Pointer(Longs(lines))]
        BY <1>6, <1>8, <3>1, <3>2 DEF BuildFromFile
      <4>2. QED
        BY <1>4, <1>8, <3>1, <3>2, <4>1, LongsMean
    <3>3. CASE type = "stringFile"
      <4>1. Element(EntryOf(w), up) = [type |-> type, value |-> Pointer(lines)]
        BY <1>6, <1>8, <3>1, <3>3 DEF BuildFromFile
      <4>2. QED
        BY <1>4, <1>8, <3>1, <3>3, <4>1, StringsMean
    <3>4. CASE type = "regexFile"
      <4>1. Element(EntryOf(w), up) =
               [type |-> type, value |-> Pointer(lines \cap Compiles)]
        BY <1>6, <1>8, <3>1, <3>4 DEF BuildFromFile
      <4>2. lines \cap Compiles \subseteq lines
        OBVIOUS
      <4>3. QED
        BY <1>4, <1>8, <3>1, <3>4, <4>1, <4>2, RegexesMean
    <3>5. QED
      BY <3>1, <3>2, <3>3, <3>4
  <2>2. StandsFor(w, place) = lines
    BY <1>4, <1>8 DEF StandsFor
  <2>3. Says(w, place, v) <=> \E t \in lines : Same(w.type, t, v)
    BY <1>5, <2>2 DEF Says, Silent
  <2>4. QED
    BY <1>3, <2>1, <2>3
<1>9. QED
  BY <1>7, <1>8

LEMMA AnswerMeans ==
    ASSUME NEW w \in Switch, NEW up \in BOOLEAN, NEW v \in Text
    PROVE  Enables(Element(EntryOf(w), up), v) <=> Says(w, PlaceOf(w.text, up), v)
<1>1. w.type \in Type \cup {None}
  BY DEF Switch
<1>2. QED
  BY <1>1, TypeAssumption, SingleMeans, ArrayMeans, FileMeans DEF Types

LEMMA InvAnswers == DocInv => AnswersAsWritten
<1> SUFFICES ASSUME DocInv, pc = "built",
                    NEW m \in Id, NEW n \in Name
             PROVE  \E place \in {Remote, Local} : \A v \in Text :
                       IsSwitchEnabled(m, n, v) <=>
                           /\ WrittenModules(m) # {}
                           /\ \E s \in WrittenSwitches(m, n) : Says(s, place, v)
  BY DEF AnswersAsWritten
<1>1. /\ written \in Seq(WrittenModule)
      /\ ModulesOf(modules, written, Len(written))
  BY WrittenType DEF DocInv, BuiltInv, ModuleInv
<1>2. PICK answered \in [Id \X Name -> BOOLEAN] : BuiltFrom(config, modules, answered)
  BY DEF DocInv, BuiltInv
<1>3. CASE WrittenModules(m) = {}
  <2>1. m \notin DOMAIN config
    BY <1>1, <1>2, <1>3, ModulesFind DEF BuiltFrom
  <2>2. QED
    BY <1>3, <2>1 DEF IsSwitchEnabled
<1>4. CASE WrittenModules(m) # {}
  <2>1. PICK s : s = written[Max(WrittenModules(m))].switches
    OBVIOUS
  <2>2. m \in DOMAIN modules /\ s \in Seq(Switch) /\ TableOf(modules[m], s, Len(s))
    BY <1>1, <1>4, <2>1, ModulesFind
  <2>3. PICK at : at = Places(s, n)
    OBVIOUS
  <2>4. /\ n \in DOMAIN modules[m] <=> at # {}
        /\ at # {} => modules[m][n] = EntryOf(s[Max(at)]) /\ s[Max(at)] \in Switch
    <3>1. PICK t : t = modules[m]
      OBVIOUS
    <3>2. s \in Seq(Switch) /\ TableOf(t, s, Len(s))
      BY <2>2, <3>1
    <3>3. (n \in DOMAIN t <=> at # {}) /\ (at # {} => t[n] = EntryOf(s[Max(at)]))
      BY <2>3, <3>2, TableFinds
    <3>4. at # {} => Max(at) \in DOMAIN s
      <4>1. at \in SUBSET (1 .. Len(s)) /\ DOMAIN s = 1 .. Len(s) /\ Len(s) \in Nat
        BY <2>2, <2>3 DEF Places
      <4>2. QED
        BY <4>1, Greatest
    <3>5. at # {} => s[Max(at)] \in Switch
      BY <2>2, <3>4, ElementOfSeq
    <3>6. QED
      BY <3>1, <3>3, <3>5
  <2>5. WrittenSwitches(m, n) = IF at = {} THEN {} ELSE {s[Max(at)]}
    BY <2>1, <2>3 DEF WrittenSwitches, Places
  <2>6. m \in DOMAIN config /\ DOMAIN config[m] = DOMAIN modules[m]
        /\ \A k \in DOMAIN modules[m] :
              config[m][k] = Element(modules[m][k], answered[<<m, k>>])
    BY <1>2, <2>2 DEF BuiltFrom
  <2>7. CASE at = {}
    <3>1. n \notin DOMAIN config[m] /\ WrittenSwitches(m, n) = {}
      BY <2>4, <2>5, <2>6, <2>7
    <3>2. QED
      BY <3>1 DEF IsSwitchEnabled
  <2>8. CASE at # {}
    <3>1. PICK w \in Switch : w = s[Max(at)]
      BY <2>4, <2>8
    <3>2. PICK up \in BOOLEAN : up = answered[<<m, n>>]
      OBVIOUS
    <3>3. /\ n \in DOMAIN config[m] /\ WrittenSwitches(m, n) = {w}
          /\ config[m][n] = Element(EntryOf(w), up)
      BY <2>4, <2>5, <2>6, <2>8, <3>1, <3>2
    <3>4. \A v \in Text : IsSwitchEnabled(m, n, v) <=> Enables(config[m][n], v)
      BY <2>6, <3>3 DEF IsSwitchEnabled
    <3>5. PICK place \in {Remote, Local} : place = PlaceOf(w.text, up)
      BY DEF PlaceOf
    <3>6. \A v \in Text : IsSwitchEnabled(m, n, v) <=> Says(w, place, v)
      BY <3>3, <3>4, <3>5, AnswerMeans
    <3>7. QED
      BY <1>4, <3>3, <3>6
  <2>9. QED
    BY <2>7, <2>8
<1>5. QED
  BY <1>3, <1>4

-----------------------------------------------------------------------------
(* Whatever the document, what the handlers gather has the types it is     *)
(* declared with (xml_core.c, switch_config_xml.c).                        *)
THEOREM DocumentTyped == Spec => []TypeOK
<1>1. DocInv => TypeOK
  BY DEF DocInv
<1>2. QED
  BY <1>1, DocAlways, PTL

(* A lookup answers from the document as it is written: the last switch of *)
(* the name in the last module of the id, with its own type and its whole  *)
(* text, and never yes where none is written, for every document, nesting  *)
(* and order of elements (switchconfxml_loadConfFile, switchconf_build,    *)
(* libswitch_isSwitchEnabled).                                             *)
THEOREM LookupAnswersDocument == Spec => []AnswersAsWritten
<1>1. DocInv => AnswersAsWritten
  BY InvAnswers
<1>2. QED
  BY <1>1, DocAlways, PTL

-----------------------------------------------------------------------------
(* The hash tables that the documents' tables are.                         *)

\* A chain holds entries of its index, none twice; a table is made of chains.
ChainSound(s, i, m) ==
    /\ s \in Seq(HashEntry)
    /\ \A n \in 1 .. Len(s) : s[n].hash = Hash[s[n].key] /\ s[n].hash % (m + 1) = i
    /\ \A n, p \in 1 .. Len(s) : s[n].key = s[p].key => n = p

Sound(t, m) ==
    /\ DOMAIN t = 0 .. m /\ t = [i \in 0 .. m |-> t[i]]
    /\ \A i \in 0 .. m : ChainSound(t[i], i, m)

In(s, e) == \E n \in 1 .. Len(s) : s[n] = e

Has(t, m, e) == \E i \in 0 .. m : In(t[i], e)

HashInv ==
    /\ HashTypeOK /\ Sound(table, max)
    /\ Len(Visited) = count
    /\ heap = count + free /\ heap <= Cardinality(Key)

-----------------------------------------------------------------------------
\* The recursion inside Walk: f[n] is the first n chains in one.
Walks(f, t, m) ==
    f = [n \in 0 .. m + 1 |-> IF n = 0 THEN <<>> ELSE f[n - 1] \o t[n - 1]]

LEMMA WalksFirst == ASSUME NEW m \in Nat, NEW f, NEW t, Walks(f, t, m) PROVE f[0] = <<>>
BY DEF Walks

LEMMA Least ==
    ASSUME NEW T \in SUBSET Nat, T # {}
    PROVE  \E n \in T : \A m \in T : n <= m
<1>1. IsWellFoundedOn(OpToRel(<, Nat), Nat)
  BY NatLessThanWellFounded
<1>2. PICK R : R = OpToRel(<, Nat)
  OBVIOUS
<1>3. \E x \in T : \A y \in T : ~ (<<y, x>> \in R)
  BY <1>1, <1>2, WFMin
<1>4. \A m, n \in Nat : <<m, n>> \in R <=> m < n
  BY <1>2 DEF OpToRel
<1>5. PICK x \in T : \A y \in T : ~ (<<y, x>> \in R)
  BY <1>3
<1>6. ASSUME NEW y \in T PROVE x <= y
  <2>1. x \in Nat /\ y \in Nat
    OBVIOUS
  <2>2. ~ (y < x)
    BY <1>4, <1>5, <2>1
  <2>3. QED
    BY <2>1, <2>2
<1>7. QED
  BY <1>6

(* Induction: a set that holds 0 and with every number the next one.       *)
LEMMA SetInduction ==
    ASSUME NEW S, 0 \in S, \A n \in Nat : n \in S => n + 1 \in S
    PROVE  Nat \subseteq S
<1> SUFFICES ASSUME Nat \ S # {} PROVE FALSE
  OBVIOUS
<1>1. PICK n \in Nat \ S : \A m \in Nat \ S : n <= m
  BY Least
<1>2. n # 0 /\ n - 1 \in Nat /\ n = (n - 1) + 1
  BY <1>1
<1>3. n - 1 \in S
  BY <1>1, <1>2
<1>4. QED
  BY <1>1, <1>2, <1>3

LEMMA WalksExist ==
    ASSUME NEW t, NEW k \in Nat
    PROVE  \E f : Walks(f, t, k)
<1> DEFINE next(s, i) == s \o t[i - 1]
           Builds(f, n) == f = [i \in 0 .. n |-> IF i = 0 THEN <<>> ELSE next(f[i - 1], i)]
           S == {n \in Nat : \E f : Builds(f, n)}
<1>1. 0 \in S
  <2>1. Builds([i \in 0 .. 0 |-> <<>>], 0)
    OBVIOUS
  <2>2. QED
    BY <2>1
<1>2. ASSUME NEW n \in Nat, n \in S PROVE n + 1 \in S
  <2>1. PICK f : Builds(f, n)
    BY <1>2
  <2>2. ASSUME NEW i \in 0 .. n PROVE f[i] = IF i = 0 THEN <<>> ELSE next(f[i - 1], i)
    <3> HIDE DEF next
    <3>1. QED
      BY <2>1
  <2> DEFINE g == [i \in 0 .. n + 1 |-> IF i <= n THEN f[i] ELSE next(f[i - 1], i)]
  <2>3. ASSUME NEW i \in 0 .. n + 1
        PROVE  g[i] = IF i = 0 THEN <<>> ELSE next(g[i - 1], i)
    <3> HIDE DEF next
    <3>1. i # 0 => i - 1 \in 0 .. n /\ g[i - 1] = f[i - 1]
      OBVIOUS
    <3>2. CASE i <= n
      <4>1. i \in 0 .. n /\ g[i] = f[i]
        BY <3>2
      <4>2. QED
        BY <2>2, <3>1, <4>1
    <3>3. CASE ~(i <= n)
      BY <3>1, <3>3
    <3>4. QED
      BY <3>2, <3>3
  <2>4. g = [i \in 0 .. n + 1 |-> g[i]]
    OBVIOUS
  <2> HIDE DEF g, next
  <2>5. Builds(g, n + 1)
    BY <2>3, <2>4
  <2>6. QED
    BY <2>5
<1> HIDE DEF S
<1>3. Nat \subseteq S
  BY <1>1, <1>2, SetInduction
<1>4. k + 1 \in S
  BY <1>3
<1>5. QED
  BY <1>4 DEF S, Walks

LEMMA WalkIs ==
    ASSUME NEW t, NEW m \in Nat
    PROVE  \E f : Walks(f, t, m) /\ Walk(t, m) = f[m + 1]
<1> DEFINE walk == CHOOSE f : Walks(f, t, m)
<1>1. Walks(walk, t, m)
  BY WalksExist
<1>2. Walk(t, m) = walk[m + 1]
  BY DEF Walk, Walks
<1>3. QED
  BY <1>1, <1>2
-----------------------------------------------------------------------------
(* What a walk meets: the entries of the chains, each where the chains     *)
(* before it end.                                                          *)
Chains(t, m) == \A i \in 0 .. m : t[i] \in Seq(HashEntry)

LEMMA SumsWithin ==
    ASSUME NEW a \in Nat, NEW b \in Nat, NEW c, c = a + b
    PROVE  /\ \A p \in 1 .. a : p \in 1 .. c
           /\ \A q \in 1 .. b : a + q \in 1 .. c
OBVIOUS

\* c is a with b behind it.
Behind(a, b, c) ==
    /\ a \in Seq(HashEntry) /\ b \in Seq(HashEntry) /\ c \in Seq(HashEntry)
    /\ Len(c) = Len(a) + Len(b)
    /\ \A p \in 1 .. Len(a) : c[p] = a[p]
    /\ \A q \in 1 .. Len(b) : c[Len(a) + q] = b[q]

LEMMA ConcatBehind ==
    ASSUME NEW a \in Seq(HashEntry), NEW b \in Seq(HashEntry), NEW c, c = a \o b
    PROVE  Behind(a, b, c)
<1>1. Len(c) = Len(a) + Len(b) /\ c \in Seq(HashEntry)
  OBVIOUS
<1>2. ASSUME NEW p \in 1 .. Len(a) PROVE c[p] = a[p]
  OBVIOUS
<1>3. ASSUME NEW q \in 1 .. Len(b) PROVE c[Len(a) + q] = b[q]
  OBVIOUS
<1>4. QED
  BY <1>1, <1>2, <1>3 DEF Behind

\* An entry of c is one of a or one of b.
InEither(a, b, c, p) ==
    \/ p \in 1 .. Len(a) /\ c[p] = a[p]
    \/ \E q \in 1 .. Len(b) : p = Len(a) + q /\ c[p] = b[q]

LEMMA BehindEither ==
    ASSUME NEW a, NEW b, NEW c, Behind(a, b, c), NEW p \in 1 .. Len(c)
    PROVE  InEither(a, b, c, p)
<1>1. Len(a) \in Nat /\ Len(b) \in Nat /\ Len(c) = Len(a) + Len(b)
  BY DEF Behind
<1>2. CASE p <= Len(a)
  BY <1>1, <1>2 DEF Behind, InEither
<1>3. CASE p > Len(a)
  <2>1. PICK q : q = p - Len(a)
    OBVIOUS
  <2>2. q \in 1 .. Len(b) /\ p = Len(a) + q
    BY <1>1, <1>3, <2>1
  <2>3. c[p] = b[q]
    BY <2>2 DEF Behind
  <2>4. QED
    BY <2>2, <2>3 DEF InEither
<1>4. QED
  BY <1>1, <1>2, <1>3

\* The chain after n chains stands behind them.
LEMMA NextChain ==
    ASSUME NEW m \in Nat, NEW t, NEW f, NEW n \in 0 .. m, NEW k,
           Walks(f, t, m), k = n + 1, f[n] \in Seq(HashEntry), t[n] \in Seq(HashEntry)
    PROVE  Behind(f[n], t[n], f[k])
<1>1. PICK a : a = f[n]
  OBVIOUS
<1>2. PICK b : b = t[n]
  OBVIOUS
<1>3. PICK c : c = f[k]
  OBVIOUS
<1>4. a \in Seq(HashEntry) /\ b \in Seq(HashEntry)
  BY <1>1, <1>2
<1>5. f = [i \in 0 .. m + 1 |-> IF i = 0 THEN <<>> ELSE f[i - 1] \o t[i - 1]]
  BY DEF Walks
<1>6. k \in 0 .. m + 1 /\ k # 0 /\ k - 1 = n
  OBVIOUS
<1>7. f[k] = f[k - 1] \o t[k - 1]
  BY <1>5, <1>6
<1>8. c = a \o b
  BY <1>1, <1>2, <1>3, <1>6, <1>7
<1>9. Behind(a, b, c)
  BY <1>4, <1>8, ConcatBehind
<1>10. QED
  BY <1>1, <1>2, <1>3, <1>9

LEMMA WalkType ==
    ASSUME NEW m \in Nat, NEW t, NEW f, Walks(f, t, m), Chains(t, m)
    PROVE  \A n \in 0 .. m + 1 : f[n] \in Seq(HashEntry)
<1> DEFINE S == {n \in Nat : n <= m + 1 => f[n] \in Seq(HashEntry)}
<1>1. 0 \in S
  <2>1. f[0] = <<>> /\ <<>> \in Seq(HashEntry)
    <3>1. f[0] = <<>>
      BY WalksFirst
    <3>2. <<>> \in Seq(HashEntry)
      OBVIOUS
    <3>3. QED
      BY <3>1, <3>2
  <2> HIDE DEF HashEntry
  <2>2. QED
    BY <2>1
<1>2. ASSUME NEW n \in Nat, n \in S PROVE n + 1 \in S
  <2> SUFFICES ASSUME n + 1 <= m + 1 PROVE f[n + 1] \in Seq(HashEntry)
    OBVIOUS
  <2>1. n \in 0 .. m
    OBVIOUS
  <2>2. PICK k : k = n + 1
    OBVIOUS
  <2>3. f[n] \in Seq(HashEntry) /\ t[n] \in Seq(HashEntry)
    BY <1>2 DEF Chains
  <2>4. f[k] \in Seq(HashEntry)
    BY <2>1, <2>2, <2>3, NextChain DEF Behind
  <2>5. QED
    BY <2>2, <2>4
<1> HIDE DEF S
<1>3. Nat \subseteq S
  BY <1>1, <1>2, SetInduction
<1>4. QED
  BY <1>3 DEF S

\* Entry p of the first n chains is in one of them.
Placed(f, t, n) ==
    \A p \in 1 .. Len(f[n]) :
        \E i \in 0 .. n - 1 : \E q \in 1 .. Len(t[i]) :
            p = Len(f[i]) + q /\ f[n][p] = t[i][q]

LEMMA WalkPlaces ==
    ASSUME NEW m \in Nat, NEW t, NEW f, Walks(f, t, m), Chains(t, m)
    PROVE  \A n \in 0 .. m + 1 : Placed(f, t, n)
<1> DEFINE S == {n \in Nat : n <= m + 1 => Placed(f, t, n)}
<1>1. 0 \in S
  <2>1. f[0] = <<>>
    BY WalksFirst
  <2>2. QED
    BY <2>1 DEF Placed
<1>2. ASSUME NEW n \in Nat, n \in S PROVE n + 1 \in S
  <2>1. PICK k : k = n + 1
    OBVIOUS
  <2> SUFFICES ASSUME k <= m + 1 PROVE Placed(f, t, k)
    BY <2>1
  <2>2. n \in 0 .. m /\ n \in 0 .. m + 1
    BY <2>1
  <2>3. Behind(f[n], t[n], f[k])
    <3>1. f[n] \in Seq(HashEntry) /\ t[n] \in Seq(HashEntry)
      BY <2>2, WalkType DEF Chains
    <3>2. QED
      BY <2>1, <2>2, <3>1, NextChain
  <2>4. Placed(f, t, n)
    BY <1>2, <2>2
  <2> HIDE DEF S
  <2>5. ASSUME NEW p \in 1 .. Len(f[k])
        PROVE  \E i \in 0 .. k - 1 : \E q \in 1 .. Len(t[i]) :
                   p = Len(f[i]) + q /\ f[k][p] = t[i][q]
    <3>1. n \in 0 .. k - 1 /\ \A i \in 0 .. n - 1 : i \in 0 .. k - 1
      BY <2>1
    <3>2. CASE p \in 1 .. Len(f[n]) /\ f[k][p] = f[n][p]
      <4>1. PICK i \in 0 .. n - 1 : \E q \in 1 .. Len(t[i]) :
                p = Len(f[i]) + q /\ f[n][p] = t[i][q]
        BY <2>4, <3>2 DEF Placed
      <4>2. QED
        BY <3>1, <3>2, <4>1
    <3>3. CASE \E q \in 1 .. Len(t[n]) : p = Len(f[n]) + q /\ f[k][p] = t[n][q]
      BY <3>1, <3>3
    <3>4. InEither(f[n], t[n], f[k], p)
      BY <2>3, BehindEither
    <3>5. QED
      BY <3>2, <3>3, <3>4 DEF InEither
  <2>6. QED
    BY <2>5 DEF Placed
<1> HIDE DEF S
<1>3. Nat \subseteq S
  BY <1>1, <1>2, SetInduction
<1>4. QED
  BY <1>3 DEF S

\* And each entry of them is met there.
Meets(f, t, n) ==
    \A i \in 0 .. n - 1 : \A q \in 1 .. Len(t[i]) :
        /\ Len(f[i]) + q \in 1 .. Len(f[n])
        /\ f[n][Len(f[i]) + q] = t[i][q]

LEMMA WalkMeets ==
    ASSUME NEW m \in Nat, NEW t, NEW f, Walks(f, t, m), Chains(t, m)
    PROVE  \A n \in 0 .. m + 1 : Meets(f, t, n)
<1> DEFINE S == {n \in Nat : n <= m + 1 => Meets(f, t, n)}
<1>1. 0 \in S
  BY DEF Meets
<1>2. ASSUME NEW n \in Nat, n \in S PROVE n + 1 \in S
  <2>1. PICK k : k = n + 1
    OBVIOUS
  <2> SUFFICES ASSUME k <= m + 1 PROVE Meets(f, t, k)
    BY <2>1
  <2>2. n \in 0 .. m /\ n \in 0 .. m + 1
    BY <2>1
  <2>3. Behind(f[n], t[n], f[k])
    <3>1. f[n] \in Seq(HashEntry) /\ t[n] \in Seq(HashEntry)
      BY <2>2, WalkType DEF Chains
    <3>2. QED
      BY <2>1, <2>2, <3>1, NextChain
  <2>4. Meets(f, t, n)
    BY <1>2, <2>2
  <2> HIDE DEF S
  <2>5. ASSUME NEW i \in 0 .. k - 1, NEW q \in 1 .. Len(t[i])
        PROVE  Len(f[i]) + q \in 1 .. Len(f[k]) /\ f[k][Len(f[i]) + q] = t[i][q]
    <3>1. Len(f[n]) \in Nat /\ Len(t[n]) \in Nat /\ Len(f[k]) = Len(f[n]) + Len(t[n])
      BY <2>3 DEF Behind
    <3>2. CASE i = n
      <4>1. f[k][Len(f[n]) + q] = t[n][q]
        BY <2>3, <3>2 DEF Behind
      <4>2. Len(f[n]) + q \in 1 .. Len(f[k])
        <5>1. q \in 1 .. Len(t[n])
          BY <3>2
        <5>2. QED
          BY <3>1, <5>1, SumsWithin
      <4>3. QED
        BY <3>2, <4>1, <4>2
    <3>3. CASE i # n
      <4>1. i \in 0 .. n - 1
        BY <2>1, <3>3
      <4>2. PICK p : p = Len(f[i]) + q
        OBVIOUS
      <4>3. p \in 1 .. Len(f[n]) /\ f[n][p] = t[i][q]
        BY <2>4, <4>1, <4>2 DEF Meets
      <4>4. f[k][p] = f[n][p]
        BY <2>3, <4>3 DEF Behind
      <4>5. p \in 1 .. Len(f[k])
        BY <3>1, <4>3, SumsWithin
      <4>6. QED
        BY <4>2, <4>3, <4>4, <4>5
    <3>4. QED
      BY <3>2, <3>3
  <2>6. QED
    BY <2>5 DEF Meets
<1> HIDE DEF S
<1>3. Nat \subseteq S
  BY <1>1, <1>2, SetInduction
<1>4. QED
  BY <1>3 DEF S

LEMMA SoundChains == ASSUME NEW t, NEW m, Sound(t, m) PROVE Chains(t, m)
BY DEF Sound, ChainSound, Chains

\* A walk over sound chains meets their entries, and each name once.
LEMMA WalkSound ==
    ASSUME NEW m \in Nat, NEW t, Sound(t, m)
    PROVE  /\ Walk(t, m) \in Seq(HashEntry)
           /\ \A p \in 1 .. Len(Walk(t, m)) : Has(t, m, Walk(t, m)[p])
           /\ \A e : Has(t, m, e) => \E p \in 1 .. Len(Walk(t, m)) : Walk(t, m)[p] = e
           /\ \A p, r \in 1 .. Len(Walk(t, m)) :
                 Walk(t, m)[p].key = Walk(t, m)[r].key => p = r
<1>1. PICK f : Walks(f, t, m) /\ Walk(t, m) = f[m + 1]
  BY WalkIs
<1>2. Chains(t, m) /\ m + 1 \in 0 .. m + 1 /\ (m + 1) - 1 = m
  BY SoundChains
<1>3. f[m + 1] \in Seq(HashEntry)
  BY <1>1, <1>2, WalkType
<1>4. \A p \in 1 .. Len(f[m + 1]) :
        \E i \in 0 .. m : \E q \in 1 .. Len(t[i]) :
            p = Len(f[i]) + q /\ f[m + 1][p] = t[i][q]
  <2>1. PICK k : k = m + 1
    OBVIOUS
  <2>2. k \in 0 .. m + 1 /\ k - 1 = m
    BY <2>1
  <2>3. Placed(f, t, k)
    BY <1>1, <1>2, <2>2, WalkPlaces
  <2>4. \A p \in 1 .. Len(f[k]) :
          \E i \in 0 .. m : \E q \in 1 .. Len(t[i]) :
              p = Len(f[i]) + q /\ f[k][p] = t[i][q]
    BY <2>2, <2>3 DEF Placed
  <2>5. QED
    BY <2>1, <2>4
<1>5. \A i \in 0 .. m : \A q \in 1 .. Len(t[i]) :
        Len(f[i]) + q \in 1 .. Len(f[m + 1]) /\ f[m + 1][Len(f[i]) + q] = t[i][q]
  BY <1>1, <1>2, WalkMeets DEF Meets
<1>6. \A p \in 1 .. Len(f[m + 1]) : Has(t, m, f[m + 1][p])
  BY <1>4 DEF Has, In
<1>7. \A e : Has(t, m, e) => \E p \in 1 .. Len(f[m + 1]) : f[m + 1][p] = e
  BY <1>5 DEF Has, In
<1>8. ASSUME NEW p \in 1 .. Len(f[m + 1]), NEW r \in 1 .. Len(f[m + 1]),
             f[m + 1][p].key = f[m + 1][r].key
      PROVE  p = r
  <2>1. PICK i \in 0 .. m : \E q \in 1 .. Len(t[i]) :
            p = Len(f[i]) + q /\ f[m + 1][p] = t[i][q]
    BY <1>4
  <2>a. PICK q \in 1 .. Len(t[i]) : p = Len(f[i]) + q /\ f[m + 1][p] = t[i][q]
    BY <2>1
  <2>2. PICK j \in 0 .. m : \E s \in 1 .. Len(t[j]) :
            r = Len(f[j]) + s /\ f[m + 1][r] = t[j][s]
    BY <1>4
  <2>b. PICK s \in 1 .. Len(t[j]) : r = Len(f[j]) + s /\ f[m + 1][r] = t[j][s]
    BY <2>2
  <2>3. t[i][q].key = t[j][s].key
    BY <1>8, <2>a, <2>b
  <2>4. /\ t[i][q].hash = Hash[t[i][q].key] /\ t[i][q].hash % (m + 1) = i
        /\ t[j][s].hash = Hash[t[j][s].key] /\ t[j][s].hash % (m + 1) = j
    BY DEF Sound, ChainSound
  <2>5. i = j
    BY <2>3, <2>4
  <2>6. q = s
    BY <2>3, <2>5 DEF Sound, ChainSound
  <2>7. QED
    BY <2>a, <2>b, <2>5, <2>6
<1>9. QED
  BY <1>1, <1>3, <1>6, <1>7, <1>8
-----------------------------------------------------------------------------
(* How long a walk is.                                                     *)
\* The n chains of g are as long as those of f, but for d at chain c.
Longer(f, g, c, d, n) == Len(g[n]) = IF c < n THEN Len(f[n]) + d ELSE Len(f[n])

LEMMA LongerStep ==
    ASSUME NEW n \in Nat, NEW c \in Nat, NEW d \in Int, NEW k, k = n + 1,
           NEW f, NEW g, NEW t, NEW u,
           Behind(f[n], t[n], f[k]), Behind(g[n], u[n], g[k]),
           Longer(f, g, c, d, n),
           n # c => Len(u[n]) = Len(t[n]),
           n = c => Len(u[n]) = Len(t[n]) + d
    PROVE  Longer(f, g, c, d, k)
<1>1. /\ Len(f[n]) \in Nat /\ Len(t[n]) \in Nat /\ Len(f[k]) = Len(f[n]) + Len(t[n])
      /\ Len(g[n]) \in Nat /\ Len(u[n]) \in Nat /\ Len(g[k]) = Len(g[n]) + Len(u[n])
  BY DEF Behind
<1>2. PICK a, b, x, y, v, w :
        a = Len(f[n]) /\ b = Len(t[n]) /\ x = Len(g[n]) /\ y = Len(u[n])
        /\ v = Len(f[k]) /\ w = Len(g[k])
  OBVIOUS
<1>3. a \in Nat /\ b \in Nat /\ x \in Nat /\ y \in Nat /\ v = a + b /\ w = x + y
  BY <1>1, <1>2
<1>4. x = IF c < n THEN a + d ELSE a
  BY <1>2 DEF Longer
<1>5. (n # c => y = b) /\ (n = c => y = b + d)
  BY <1>2
<1>6. w = IF c < k THEN v + d ELSE v
  BY <1>3, <1>4, <1>5
<1>7. QED
  BY <1>2, <1>6 DEF Longer

LEMMA WalkLength ==
    ASSUME NEW m \in Nat, NEW t, NEW u, NEW c \in 0 .. m, NEW d \in Int,
           Chains(t, m), Chains(u, m),
           \A i \in 0 .. m : i # c => Len(u[i]) = Len(t[i]),
           Len(u[c]) = Len(t[c]) + d
    PROVE  Len(Walk(u, m)) = Len(Walk(t, m)) + d
<1>1. PICK f : Walks(f, t, m) /\ Walk(t, m) = f[m + 1]
  BY WalkIs
<1>2. PICK g : Walks(g, u, m) /\ Walk(u, m) = g[m + 1]
  BY WalkIs
<1> DEFINE S == {n \in Nat : n <= m + 1 => Longer(f, g, c, d, n)}
<1>3. 0 \in S
  <2>1. f[0] = <<>> /\ g[0] = <<>> /\ ~(c < 0)
    BY <1>1, <1>2, WalksFirst
  <2>2. Longer(f, g, c, d, 0)
    BY <2>1 DEF Longer
  <2>3. QED
    BY <2>2
<1>4. ASSUME NEW n \in Nat, n \in S PROVE n + 1 \in S
  <2>1. PICK k : k = n + 1
    OBVIOUS
  <2> SUFFICES ASSUME k <= m + 1 PROVE Longer(f, g, c, d, k)
    BY <2>1
  <2>2. n \in 0 .. m /\ n \in 0 .. m + 1
    BY <2>1
  <2>3. Longer(f, g, c, d, n)
    BY <1>4, <2>2
  <2> HIDE DEF S
  <2>4. Behind(f[n], t[n], f[k])
    <3>1. f[n] \in Seq(HashEntry) /\ t[n] \in Seq(HashEntry)
      BY <1>1, <2>2, WalkType DEF Chains
    <3>2. QED
      BY <1>1, <2>1, <2>2, <3>1, NextChain
  <2>5. Behind(g[n], u[n], g[k])
    <3>1. g[n] \in Seq(HashEntry) /\ u[n] \in Seq(HashEntry)
      BY <1>2, <2>2, WalkType DEF Chains
    <3>2. QED
      BY <1>2, <2>1, <2>2, <3>1, NextChain
  <2>6. (n # c => Len(u[n]) = Len(t[n])) /\ (n = c => Len(u[n]) = Len(t[n]) + d)
    BY <2>2
  <2>7. c \in Nat
    OBVIOUS
  <2>8. QED
    BY <2>1, <2>3, <2>4, <2>5, <2>6, <2>7, LongerStep
<1> HIDE DEF S
<1>5. Nat \subseteq S
  BY <1>3, <1>4, SetInduction
<1>6. PICK k : k = m + 1
  OBVIOUS
<1>7. k \in S /\ k \in Nat /\ c < k
  BY <1>5, <1>6
<1>8. Longer(f, g, c, d, k)
  BY <1>6, <1>7 DEF S
<1>9. QED
  BY <1>1, <1>2, <1>6, <1>7, <1>8 DEF Longer

LEMMA WalkOfNone ==
    ASSUME NEW m \in Nat, NEW t, \A i \in 0 .. m : t[i] = <<>>
    PROVE  Len(Walk(t, m)) = 0
<1>1. PICK f : Walks(f, t, m) /\ Walk(t, m) = f[m + 1]
  BY WalkIs
<1>2. Chains(t, m)
  <2>1. <<>> \in Seq(HashEntry)
    OBVIOUS
  <2>2. QED
    BY <2>1 DEF Chains
<1>3. \A p \in 1 .. Len(f[m + 1]) : FALSE
  <2>1. PICK k : k = m + 1
    OBVIOUS
  <2>2. Placed(f, t, k) /\ k - 1 = m
    BY <1>1, <1>2, <2>1, WalkPlaces
  <2>3. \A i \in 0 .. m : \A q \in 1 .. Len(t[i]) : FALSE
    <3>1. Len(<<>>) = 0
      OBVIOUS
    <3>2. QED
      BY <3>1
  <2>4. QED
    BY <2>1, <2>2, <2>3 DEF Placed
<1>4. f[m + 1] \in Seq(HashEntry)
  BY <1>1, <1>2, WalkType
<1>5. QED
  <2>1. PICK w : w = f[m + 1]
    OBVIOUS
  <2>2. w \in Seq(HashEntry) /\ \A p \in 1 .. Len(w) : FALSE
    BY <1>3, <1>4, <2>1
  <2>3. Len(w) \in Nat /\ (Len(w) >= 1 => 1 \in 1 .. Len(w))
    BY <2>2
  <2>4. QED
    BY <1>1, <2>1, <2>2, <2>3

-----------------------------------------------------------------------------
(* What the operations do to one chain.                                    *)
\* r has what s has, but for the name k, under which it has E.
ChainChanged(s, r, k, E) ==
    \A x : In(r, x) <=> (In(s, x) /\ x.key # k) \/ x \in E

\* r is s with one more entry, of a name that s had not.
Gains(s, r, e, i, m) ==
    /\ ChainSound(r, i, m) /\ Len(r) = Len(s) + 1
    /\ ChainChanged(s, r, e.key, {e})

Fits(e, i, m) == e \in HashEntry /\ e.hash = Hash[e.key] /\ e.hash % (m + 1) = i

LEMMA PushedInFront ==
    ASSUME NEW m \in Nat, NEW i, NEW s, ChainSound(s, i, m), NEW e, Fits(e, i, m),
           \A n \in 1 .. Len(s) : s[n].key # e.key,
           NEW r, r = <<e>> \o s
    PROVE  Gains(s, r, e, i, m)
<1>1. s \in Seq(HashEntry) /\ e \in HashEntry
  BY DEF ChainSound, Fits
<1>2. /\ r \in Seq(HashEntry) /\ Len(s) \in Nat /\ Len(r) = Len(s) + 1
      /\ r[1] = e
  BY <1>1
<1>3. ASSUME NEW n \in 1 .. Len(s) PROVE r[n + 1] = s[n]
  BY <1>1
<1>4. ASSUME NEW n \in 1 .. Len(r), n # 1
      PROVE  n - 1 \in 1 .. Len(s) /\ r[n] = s[n - 1]
  <2>1. PICK k : k = n - 1
    OBVIOUS
  <2>2. k \in 1 .. Len(s) /\ n = k + 1
    BY <1>2, <1>4, <2>1
  <2>3. r[k + 1] = s[k]
    BY <1>3, <2>2
  <2>4. QED
    BY <2>1, <2>2, <2>3
<1>5. ASSUME NEW n \in 1 .. Len(r) PROVE r[n].hash = Hash[r[n].key] /\ r[n].hash % (m + 1) = i
  BY <1>2, <1>4 DEF ChainSound, Fits
<1>6. ASSUME NEW n \in 1 .. Len(r), NEW p \in 1 .. Len(r), r[n].key = r[p].key
      PROVE  n = p
  <2>1. CASE n = 1 \/ p = 1
    BY <1>2, <1>4, <1>6, <2>1
  <2>2. CASE n # 1 /\ p # 1
    <3>1. n - 1 \in 1 .. Len(s) /\ p - 1 \in 1 .. Len(s)
      BY <1>4, <2>2
    <3>2. s[n - 1].key = s[p - 1].key
      BY <1>4, <1>6, <2>2
    <3>3. n - 1 = p - 1
      BY <3>1, <3>2 DEF ChainSound
    <3>4. QED
      BY <3>3
  <2>3. QED
    BY <2>1, <2>2
<1>7. ChainSound(r, i, m)
  BY <1>2, <1>5, <1>6 DEF ChainSound
<1>8. ASSUME NEW x PROVE In(r, x) <=> In(s, x) \/ x = e
  <2>1. In(r, x) => In(s, x) \/ x = e
    BY <1>2, <1>4 DEF In
  <2>2. In(s, x) => In(r, x)
    <3> SUFFICES ASSUME NEW n \in 1 .. Len(s), s[n] = x PROVE In(r, x)
      BY DEF In
    <3>1. PICK k : k = n + 1
      OBVIOUS
    <3>2. k \in 1 .. Len(r)
      BY <1>2, <3>1
    <3>3. QED
      BY <1>3, <3>1, <3>2 DEF In
  <2>3. In(r, e)
    BY <1>2 DEF In
  <2>4. QED
    BY <2>1, <2>2, <2>3
<1>9. \A x : In(s, x) => x.key # e.key
  BY DEF In
<1>10. ChainChanged(s, r, e.key, {e})
  BY <1>8, <1>9 DEF ChainChanged
<1>11. QED
  BY <1>2, <1>7, <1>10 DEF Gains

LEMMA PutBehind ==
    ASSUME NEW m \in Nat, NEW i, NEW s, ChainSound(s, i, m), NEW e, Fits(e, i, m),
           \A n \in 1 .. Len(s) : s[n].key # e.key,
           NEW r, r = Append(s, e)
    PROVE  Gains(s, r, e, i, m)
<1>1. s \in Seq(HashEntry) /\ e \in HashEntry
  BY DEF ChainSound, Fits
<1>2. /\ r \in Seq(HashEntry) /\ Len(s) \in Nat /\ Len(r) = Len(s) + 1
      /\ r[Len(s) + 1] = e
  BY <1>1
<1>3. ASSUME NEW n \in 1 .. Len(s) PROVE r[n] = s[n]
  BY <1>1
<1>4. PICK l : l = Len(s) + 1
  OBVIOUS
<1>5. /\ l \in 1 .. Len(r) /\ r[l] = e /\ l \notin 1 .. Len(s)
      /\ \A n \in 1 .. Len(r) : n # l => n \in 1 .. Len(s)
      /\ \A n \in 1 .. Len(s) : n \in 1 .. Len(r)
  BY <1>2, <1>4
<1>6. ASSUME NEW n \in 1 .. Len(r) PROVE r[n].hash = Hash[r[n].key] /\ r[n].hash % (m + 1) = i
  BY <1>3, <1>5 DEF ChainSound, Fits
<1>7. ASSUME NEW n \in 1 .. Len(r), NEW p \in 1 .. Len(r), r[n].key = r[p].key
      PROVE  n = p
  BY <1>3, <1>5, <1>7 DEF ChainSound
<1>8. ChainSound(r, i, m)
  BY <1>2, <1>6, <1>7 DEF ChainSound
<1>9. ASSUME NEW x PROVE In(r, x) <=> In(s, x) \/ x = e
  BY <1>3, <1>5 DEF In
<1>10. \A x : In(s, x) => x.key # e.key
  BY DEF In
<1>11. ChainChanged(s, r, e.key, {e})
  BY <1>9, <1>10 DEF ChainChanged
<1>12. QED
  BY <1>2, <1>8, <1>11 DEF Gains

\* r is s with the value v in the entry of k, that becomes e.
Revalues(s, k, v, r, e) ==
    \E p \in 1 .. Len(s) :
        s[p].key = k /\ r = [s EXCEPT ![p].val = v] /\ e = [s[p] EXCEPT !.val = v]

LEMMA Revalued ==
    ASSUME NEW m \in Nat, NEW i, NEW s, ChainSound(s, i, m), NEW k,
           NEW v \in Val, NEW r, NEW e, Revalues(s, k, v, r, e)
    PROVE  ChainSound(r, i, m) /\ Len(r) = Len(s) /\ ChainChanged(s, r, k, {e})
<1>1. PICK p \in 1 .. Len(s) :
        s[p].key = k /\ r = [s EXCEPT ![p].val = v] /\ e = [s[p] EXCEPT !.val = v]
  BY DEF Revalues
<1>2. s \in Seq(HashEntry) /\ s[p] \in HashEntry
  BY DEF ChainSound
<1>3. e \in HashEntry /\ e.key = k /\ e.hash = s[p].hash
  BY <1>1, <1>2 DEF HashEntry
<1>4. r = [s EXCEPT ![p] = e]
  BY <1>1
<1>5. /\ r \in Seq(HashEntry) /\ Len(r) = Len(s)
      /\ r[p] = e /\ \A n \in 1 .. Len(s) : n # p => r[n] = s[n]
  BY <1>2, <1>3, <1>4
<1>6. \A n \in 1 .. Len(s) : r[n].key = s[n].key /\ r[n].hash = s[n].hash
  BY <1>1, <1>3, <1>5
<1>7. ChainSound(r, i, m)
  BY <1>5, <1>6 DEF ChainSound
<1>8. ASSUME NEW x PROVE In(r, x) <=> (In(s, x) /\ x.key # k) \/ x = e
  <2>1. \A n \in 1 .. Len(s) : n # p => s[n].key # k
    BY <1>1 DEF ChainSound
  <2>2. QED
    BY <1>1, <1>5, <2>1 DEF In
<1>9. QED
  BY <1>5, <1>7, <1>8 DEF ChainChanged

LEMMA TakenOut ==
    ASSUME NEW m \in Nat, NEW i, NEW s, ChainSound(s, i, m), NEW p \in 1 .. Len(s),
           NEW r, r = RemoveAt(s, p)
    PROVE  /\ ChainSound(r, i, m) /\ Len(r) = Len(s) - 1
           /\ ChainChanged(s, r, s[p].key, {})
<1>1. s \in Seq(HashEntry) /\ Len(s) \in Nat
  BY DEF ChainSound
<1>2. PICK a : a = SubSeq(s, 1, p - 1)
  OBVIOUS
<1>3. PICK b : b = SubSeq(s, p + 1, Len(s))
  OBVIOUS
<1>4. a \in Seq(HashEntry) /\ Len(a) = p - 1 /\ \A n \in 1 .. p - 1 : a[n] = s[n]
  BY <1>1, <1>2
<1>5. b \in Seq(HashEntry) /\ Len(b) = Len(s) - p /\ \A n \in 1 .. Len(s) - p : b[n] = s[n + p]
  BY <1>1, <1>3
<1>6. r = a \o b
  BY <1>2, <1>3 DEF RemoveAt
<1>7. Behind(a, b, r)
  BY <1>4, <1>5, <1>6, ConcatBehind
<1>8. r \in Seq(HashEntry) /\ Len(r) = Len(s) - 1
  BY <1>1, <1>4, <1>5, <1>7 DEF Behind
\* Place n of r is place Old(n) of s.
<1> DEFINE Old(n) == IF n < p THEN n ELSE n + 1
<1>9. ASSUME NEW n \in 1 .. Len(r) PROVE Old(n) \in 1 .. Len(s) /\ Old(n) # p /\ r[n] = s[Old(n)]
  <2>1. CASE n < p
    BY <1>4, <1>7, <1>8, <2>1 DEF Behind
  <2>2. CASE ~(n < p)
    <3>1. PICK q : q = n - (p - 1)
      OBVIOUS
    <3>2. q \in 1 .. Len(b) /\ n = Len(a) + q /\ q \in 1 .. Len(s) - p /\ q + p = n + 1
      BY <1>4, <1>5, <1>8, <2>2, <3>1
    <3>3. r[n] = b[q]
      BY <1>7, <3>2 DEF Behind
    <3>4. b[q] = s[q + p]
      BY <1>5, <3>2
    <3>5. QED
      BY <1>8, <2>2, <3>2, <3>3, <3>4
  <2>3. QED
    BY <2>1, <2>2
<1>10. ASSUME NEW k \in 1 .. Len(s), k # p PROVE \E n \in 1 .. Len(r) : Old(n) = k
  <2>1. CASE k < p
    BY <1>8, <2>1
  <2>2. CASE k > p
    <3>1. k - 1 \in 1 .. Len(r) /\ Old(k - 1) = k
      BY <1>8, <2>2
    <3>2. QED
      BY <3>1
  <2>3. QED
    BY <1>10, <2>1, <2>2
<1>11. \A n, k \in 1 .. Len(r) : Old(n) = Old(k) => n = k
  BY <1>8
<1> HIDE DEF Old
<1>12. ASSUME NEW n \in 1 .. Len(r) PROVE r[n].hash = Hash[r[n].key] /\ r[n].hash % (m + 1) = i
  BY <1>9 DEF ChainSound
<1>13. ASSUME NEW n \in 1 .. Len(r), NEW k \in 1 .. Len(r), r[n].key = r[k].key PROVE n = k
  <2>1. Old(n) = Old(k)
    BY <1>9, <1>13 DEF ChainSound
  <2>2. QED
    BY <1>11, <2>1
<1>14. ChainSound(r, i, m)
  BY <1>8, <1>12, <1>13 DEF ChainSound
<1>15. ASSUME NEW x PROVE In(r, x) <=> In(s, x) /\ x.key # s[p].key
  <2>1. \A n \in 1 .. Len(s) : n # p => s[n].key # s[p].key
    BY DEF ChainSound
  <2>2. In(r, x) => In(s, x) /\ x.key # s[p].key
    BY <1>9, <2>1 DEF In
  <2>3. In(s, x) /\ x.key # s[p].key => In(r, x)
    <3> SUFFICES ASSUME NEW k \in 1 .. Len(s), s[k] = x, x.key # s[p].key PROVE In(r, x)
      BY DEF In
    <3>1. PICK n \in 1 .. Len(r) : Old(n) = k
      BY <1>10
    <3>2. QED
      BY <1>9, <3>1 DEF In
  <2>4. QED
    BY <2>2, <2>3
<1>16. QED
  BY <1>8, <1>14, <1>15 DEF ChainChanged

-----------------------------------------------------------------------------
(* What the operations do to the table.                                    *)
LongerBy(s, r, d) == d \in Int /\ Len(r) = Len(s) + d

\* u has what t has, but for the name k, under which it has E.
Changed(t, u, m, k, E) ==
    \A x : Has(u, m, x) <=> (Has(t, m, x) /\ x.key # k) \/ x \in E

\* The entries of a name are in the chain of its index.
LEMMA NotElsewhere ==
    ASSUME NEW m \in Nat, NEW t, Sound(t, m), NEW k, NEW i \in 0 .. m,
           i # Hash[k] % (m + 1), NEW x, In(t[i], x)
    PROVE  x.key # k
<1>1. PICK n \in 1 .. Len(t[i]) : t[i][n] = x
  BY DEF In
<1>2. x.hash = Hash[x.key] /\ x.hash % (m + 1) = i
  BY <1>1 DEF Sound, ChainSound
<1>3. QED
  BY <1>2

LEMMA ChainReplaced ==
    ASSUME NEW m \in Nat, NEW t, Sound(t, m), NEW k, NEW c \in 0 .. m,
           c = Hash[k] % (m + 1), NEW r, ChainSound(r, c, m), NEW E,
           ChainChanged(t[c], r, k, E),
           NEW d, LongerBy(t[c], r, d), NEW u, u = [t EXCEPT ![c] = r]
    PROVE  Sound(u, m) /\ Changed(t, u, m, k, E) /\ LongerBy(Walk(t, m), Walk(u, m), d)
<1>1. t = [i \in 0 .. m |-> t[i]]
  BY DEF Sound
<1>2. /\ DOMAIN u = 0 .. m /\ u = [i \in 0 .. m |-> u[i]]
      /\ u[c] = r /\ \A i \in 0 .. m : i # c => u[i] = t[i]
  BY <1>1
<1>3. Sound(u, m)
  BY <1>2 DEF Sound
<1>4. ASSUME NEW x PROVE Has(u, m, x) <=> (Has(t, m, x) /\ x.key # k) \/ x \in E
  <2>1. \A i \in 0 .. m : i # c /\ In(t[i], x) => x.key # k
    BY NotElsewhere
  <2>2. Has(u, m, x) <=> In(r, x) \/ \E i \in 0 .. m : i # c /\ In(t[i], x)
    BY <1>2 DEF Has
  <2>3. Has(t, m, x) <=> In(t[c], x) \/ \E i \in 0 .. m : i # c /\ In(t[i], x)
    BY DEF Has
  <2>4. In(r, x) <=> (In(t[c], x) /\ x.key # k) \/ x \in E
    BY DEF ChainChanged
  <2>5. QED
    BY <2>1, <2>2, <2>3, <2>4
<1>5. LongerBy(Walk(t, m), Walk(u, m), d)
  <2>1. Chains(t, m) /\ Chains(u, m)
    BY <1>3, SoundChains
  <2>2. Len(u[c]) = Len(t[c]) + d /\ \A i \in 0 .. m : i # c => Len(u[i]) = Len(t[i])
    BY <1>2 DEF LongerBy
  <2>3. d \in Int
    BY DEF LongerBy
  <2>4. QED
    BY <2>1, <2>2, <2>3, WalkLength DEF LongerBy
<1>6. QED
  BY <1>3, <1>4, <1>5 DEF Changed

-----------------------------------------------------------------------------
(* What shmapr_expand_array builds: the chains of the entries walked.      *)
Pushes(f, w, size) ==
    f = [n \in 0 .. Len(w) |->
            IF n = 0 THEN [i \in 0 .. size - 1 |-> <<>>]
            ELSE [f[n - 1] EXCEPT ![w[n].hash % size] = <<w[n]>> \o @]]

LEMMA PushesExist ==
    ASSUME NEW w, Len(w) \in Nat, NEW size
    PROVE  \E f : Pushes(f, w, size)
<1> DEFINE none == [i \in 0 .. size - 1 |-> <<>>]
           next(s, i) == [s EXCEPT ![w[i].hash % size] = <<w[i]>> \o @]
           Builds(f, n) == f = [i \in 0 .. n |-> IF i = 0 THEN none ELSE next(f[i - 1], i)]
           S == {n \in Nat : \E f : Builds(f, n)}
<1>1. 0 \in S
  <2> HIDE DEF none, next
  <2>1. Builds([i \in 0 .. 0 |-> none], 0)
    OBVIOUS
  <2>2. QED
    BY <2>1
<1>2. ASSUME NEW n \in Nat, n \in S PROVE n + 1 \in S
  <2> HIDE DEF none
  <2>1. PICK f : Builds(f, n)
    BY <1>2
  <2>2. ASSUME NEW i \in 0 .. n PROVE f[i] = IF i = 0 THEN none ELSE next(f[i - 1], i)
    <3> HIDE DEF next
    <3>1. QED
      BY <2>1
  <2> DEFINE g == [i \in 0 .. n + 1 |-> IF i <= n THEN f[i] ELSE next(f[i - 1], i)]
  <2>3. ASSUME NEW i \in 0 .. n + 1
        PROVE  g[i] = IF i = 0 THEN none ELSE next(g[i - 1], i)
    <3> HIDE DEF next
    <3>1. i # 0 => i - 1 \in 0 .. n /\ g[i - 1] = f[i - 1]
      OBVIOUS
    <3>2. CASE i <= n
      <4>1. i \in 0 .. n /\ g[i] = f[i]
        BY <3>2
      <4>2. QED
        BY <2>2, <3>1, <4>1
    <3>3. CASE ~(i <= n)
      BY <3>1, <3>3
    <3>4. QED
      BY <3>2, <3>3
  <2>4. g = [i \in 0 .. n + 1 |-> g[i]]
    OBVIOUS
  <2> HIDE DEF g, next
  <2>5. Builds(g, n + 1)
    BY <2>3, <2>4
  <2>6. QED
    BY <2>5
<1> HIDE DEF S
<1>3. Nat \subseteq S
  BY <1>1, <1>2, SetInduction
<1>4. Len(w) \in S
  BY <1>3
<1>5. QED
  BY <1>4 DEF S, Pushes

LEMMA PushedIs ==
    ASSUME NEW w, Len(w) \in Nat, NEW size
    PROVE  \E f : Pushes(f, w, size) /\ Pushed(w, size, size) = f[Len(w)]
<1> DEFINE chains == CHOOSE f : Pushes(f, w, size)
<1>1. Pushes(chains, w, size)
  BY PushesExist
<1>2. Pushed(w, size, size) = chains[Len(w)]
  BY DEF Pushed, Pushes
<1>3. QED
  BY <1>1, <1>2

\* Entries of a walk that meets no name twice.
Walked(w) ==
    /\ w \in Seq(HashEntry)
    /\ \A p \in 1 .. Len(w) : w[p].hash = Hash[w[p].key]
    /\ \A p, r \in 1 .. Len(w) : w[p].key = w[r].key => p = r

\* u holds the first n entries of the walk.
Holds(u, m, w, n) ==
    /\ Sound(u, m) /\ Len(Walk(u, m)) = n
    /\ \A x : Has(u, m, x) <=> \E p \in 1 .. n : w[p] = x

\* u is t with e pushed in front of its chain.
PushOf(t, u, e, m) == u = [t EXCEPT ![e.hash % (m + 1)] = <<e>> \o @]

LEMMA PushOne ==
    ASSUME NEW m \in Nat, NEW w, Walked(w), NEW n \in Nat, NEW k \in 1 .. Len(w), k = n + 1,
           NEW t, Holds(t, m, w, n), NEW u, PushOf(t, u, w[k], m)
    PROVE  Holds(u, m, w, k)
<1>1. PICK e : e = w[k]
  OBVIOUS
<1>2. e \in HashEntry /\ e.hash = Hash[e.key] /\ e.hash \in Nat
  <2>1. w[k] \in HashEntry /\ w[k].hash = Hash[w[k].key]
    <3> HIDE DEF HashEntry
    <3>1. QED
      BY DEF Walked
  <2>2. QED
    BY <1>1, <2>1 DEF HashEntry
<1>a. PICK c : c = e.hash % (m + 1)
  OBVIOUS
<1>3. c \in 0 .. m
  <2>1. \A h \in Nat : h % (m + 1) \in 0 .. m
    OBVIOUS
  <2>2. QED
    BY <1>2, <1>a, <2>1
<1>4. PICK s : s = t[c]
  OBVIOUS
<1>5. ChainSound(s, c, m) /\ Fits(e, c, m)
  BY <1>2, <1>a, <1>3, <1>4 DEF Holds, Sound, Fits
<1>6. \A x : Has(t, m, x) => x.key # e.key
  <2>1. \A p \in 1 .. n : p \in 1 .. Len(w) /\ p # k
    <3>1. Len(w) \in Nat
      BY DEF Walked
    <3>2. QED
      BY <3>1
  <2>2. QED
    BY <1>1, <2>1 DEF Holds, Walked
<1>7. \A x : In(s, x) => x.key # e.key
  BY <1>3, <1>4, <1>6 DEF Has
<1>8. \A p \in 1 .. Len(s) : s[p].key # e.key
  BY <1>7 DEF In
<1>9. PICK r : r = <<e>> \o s
  OBVIOUS
<1>10. Gains(s, r, e, c, m)
  BY <1>5, <1>8, <1>9, PushedInFront
<1>11. u = [t EXCEPT ![c] = r]
  BY <1>1, <1>a, <1>4, <1>9 DEF PushOf
<1>12. ChainSound(r, c, m) /\ ChainChanged(t[c], r, e.key, {e})
  BY <1>4, <1>10 DEF Gains
<1>13. Sound(t, m)
  BY DEF Holds
<1>14. Sound(u, m) /\ Changed(t, u, m, e.key, {e}) /\ LongerBy(Walk(t, m), Walk(u, m), 1)
  <2>1. c = Hash[e.key] % (m + 1)
    BY <1>a, <1>2
  <2>2. LongerBy(t[c], r, 1)
    BY <1>4, <1>10 DEF Gains, LongerBy
  <2>3. QED
    BY <1>3, <1>11, <1>12, <1>13, <2>1, <2>2, ChainReplaced
<1>15. ASSUME NEW x PROVE Has(u, m, x) <=> \E p \in 1 .. k : w[p] = x
  <2>1. Has(u, m, x) <=> Has(t, m, x) \/ x = e
    BY <1>6, <1>14 DEF Changed
  <2>2. Has(t, m, x) <=> \E p \in 1 .. n : w[p] = x
    BY DEF Holds
  <2>3. (\E p \in 1 .. k : w[p] = x) <=> (\E p \in 1 .. n : w[p] = x) \/ x = e
    <3>1. \A p : p \in 1 .. k <=> p \in 1 .. n \/ p = k
      OBVIOUS
    <3>2. QED
      BY <1>1, <3>1
  <2>4. QED
    BY <2>1, <2>2, <2>3
<1>16. Len(Walk(u, m)) = k
  BY <1>14 DEF Holds, LongerBy
<1>17. QED
  BY <1>14, <1>15, <1>16 DEF Holds

LEMMA PushedHolds ==
    ASSUME NEW w, Walked(w), NEW m \in Nat, NEW size, size = m + 1
    PROVE  Holds(Pushed(w, size, size), m, w, Len(w))
<1>1. Len(w) \in Nat
  BY DEF Walked
<1>2. PICK f : Pushes(f, w, size) /\ Pushed(w, size, size) = f[Len(w)]
  BY <1>1, PushedIs
<1> DEFINE S == {n \in Nat : n <= Len(w) => Holds(f[n], m, w, n)}
<1>3. 0 \in S
  <2>1. PICK none : none = [i \in 0 .. m |-> <<>>]
    OBVIOUS
  <2>2. f[0] = none
    <3>1. size - 1 = m /\ 0 \in 0 .. Len(w)
      BY <1>1
    <3>2. QED
      BY <1>2, <2>1, <3>1 DEF Pushes
  <2>3. Sound(none, m)
    <3>1. <<>> \in Seq(HashEntry) /\ Len(<<>>) = 0
      OBVIOUS
    <3>2. \A i : ChainSound(<<>>, i, m)
      BY <3>1 DEF ChainSound
    <3>3. QED
      BY <2>1, <3>2 DEF Sound
  <2>4. \A x : ~Has(none, m, x)
    <3>1. \A x : ~In(<<>>, x)
      BY DEF In
    <3>2. QED
      BY <2>1, <3>1 DEF Has
  <2>5. Len(Walk(none, m)) = 0
    BY <2>1, WalkOfNone
  <2>6. Holds(none, m, w, 0)
    BY <2>3, <2>4, <2>5 DEF Holds
  <2>7. QED
    BY <2>2, <2>6
<1>4. ASSUME NEW n \in Nat, n \in S PROVE n + 1 \in S
  <2>1. PICK k : k = n + 1
    OBVIOUS
  <2> SUFFICES ASSUME k <= Len(w) PROVE Holds(f[k], m, w, k)
    BY <2>1
  <2>2. k \in 1 .. Len(w) /\ k \in 0 .. Len(w) /\ k # 0 /\ k - 1 = n /\ k \in Nat
    BY <1>1, <2>1
  <2>3. Holds(f[n], m, w, n)
    BY <1>1, <1>4, <2>1
  <2> HIDE DEF S
  <2>4. f[k] = [f[k - 1] EXCEPT ![w[k].hash % size] = <<w[k]>> \o @]
    BY <1>2, <2>2 DEF Pushes
  <2>5. PushOf(f[n], f[k], w[k], m)
    BY <2>2, <2>4 DEF PushOf
  <2>6. QED
    BY <2>1, <2>2, <2>3, <2>5, PushOne
<1> HIDE DEF S
<1>5. Nat \subseteq S
  BY <1>3, <1>4, SetInduction
<1>6. QED
  BY <1>1, <1>2, <1>5 DEF S

LEMMA ExpandedHolds ==
    ASSUME NEW w, Walked(w), NEW m \in Nat
    PROVE  Holds(Pushed(w, 2 * m + 2, 2 * m + 2), 2 * m + 1, w, Len(w))
<1>1. PICK k : k = 2 * m + 1
  OBVIOUS
<1>2. PICK size : size = 2 * m + 2
  OBVIOUS
<1>3. k \in Nat /\ size = k + 1
  BY <1>1, <1>2
<1>4. Holds(Pushed(w, size, size), k, w, Len(w))
  BY <1>3, PushedHolds
<1>5. QED
  BY <1>1, <1>2, <1>4

-----------------------------------------------------------------------------
(* What a lookup gives.                                                    *)
FindIn(t, m, k) == SelectInSeq(t[Hash[k] % (m + 1)], LAMBDA e : IsFor(e, k))

ValIn(t, m, k) ==
    IF FindIn(t, m, k) = 0 THEN NoVal ELSE t[Hash[k] % (m + 1)][FindIn(t, m, k)].val

\* n is the place of the entry of k in its chain, or 0.
Found(s, k, n) ==
    \/ n = 0 /\ \A p \in 1 .. Len(s) : s[p].key # k
    \/ n \in 1 .. Len(s) /\ s[n].key = k

LEMMA IndexType == ASSUME NEW m \in Nat, NEW k \in Key PROVE Hash[k] % (m + 1) \in 0 .. m
<1>1. PICK h \in Nat : h = Hash[k]
  BY HashAssumption
<1>2. h % (m + 1) \in 0 .. m
  OBVIOUS
<1>3. QED
  BY <1>1, <1>2

LEMMA FindInChain ==
    ASSUME NEW m \in Nat, NEW t, Sound(t, m), NEW k \in Key, NEW c, c = Hash[k] % (m + 1)
    PROVE  Found(t[c], k, FindIn(t, m, k))
<1>1. PICK s : s = t[c]
  OBVIOUS
<1>2. ChainSound(s, c, m)
  BY <1>1, IndexType DEF Sound
<1>3. \A n \in 1 .. Len(s) : IsFor(s[n], k) <=> s[n].key = k
  BY <1>2 DEF ChainSound, IsFor
<1> DEFINE I == {n \in 1 .. Len(s) : IsFor(s[n], k)}
<1>4. FindIn(t, m, k) = IF I # {} THEN Min(I) ELSE 0
  BY <1>1 DEF FindIn, SelectInSeq
<1>5. I \in SUBSET Nat
  OBVIOUS
<1>6. ASSUME I # {} PROVE Min(I) \in I
  <2> HIDE DEF I
  <2>1. \E n \in I : \A p \in I : n <= p
    BY <1>5, <1>6, Least
  <2>2. QED
    BY <2>1 DEF Min
<1>7. CASE I = {}
  <2>1. FindIn(t, m, k) = 0
    BY <1>4, <1>7
  <2>2. \A n \in 1 .. Len(s) : s[n].key # k
    BY <1>3, <1>7
  <2>3. QED
    BY <1>1, <2>1, <2>2 DEF Found
<1>8. CASE I # {}
  <2>1. FindIn(t, m, k) \in I
    <3> HIDE DEF I
    <3>1. QED
      BY <1>4, <1>6, <1>8
  <2>2. QED
    BY <1>1, <1>3, <2>1 DEF Found
<1>9. QED
  BY <1>7, <1>8

LEMMA SameName ==
    ASSUME NEW m \in Nat, NEW t, Sound(t, m), NEW x, Has(t, m, x), NEW y, Has(t, m, y),
           x.key = y.key
    PROVE  x = y
<1>1. PICK i \in 0 .. m : In(t[i], x)
  BY DEF Has
<1>2. PICK j \in 0 .. m : In(t[j], y)
  BY DEF Has
<1>3. PICK p \in 1 .. Len(t[i]) : t[i][p] = x
  BY <1>1 DEF In
<1>4. PICK q \in 1 .. Len(t[j]) : t[j][q] = y
  BY <1>2 DEF In
<1>5. i = j
  <2>1. x.hash = Hash[x.key] /\ x.hash % (m + 1) = i
    BY <1>3 DEF Sound, ChainSound
  <2>2. y.hash = Hash[y.key] /\ y.hash % (m + 1) = j
    BY <1>4 DEF Sound, ChainSound
  <2>3. QED
    BY <2>1, <2>2
<1>6. p = q
  BY <1>3, <1>4, <1>5 DEF Sound, ChainSound
<1>7. QED
  BY <1>3, <1>4, <1>5, <1>6

\* A lookup gives the value of the entry of the name.
LEMMA ValOfEntry ==
    ASSUME NEW m \in Nat, NEW t, Sound(t, m), NEW x, Has(t, m, x), x.key \in Key
    PROVE  ValIn(t, m, x.key) = x.val
<1>1. PICK k \in Key : k = x.key
  OBVIOUS
<1>2. PICK c : c = Hash[k] % (m + 1)
  OBVIOUS
<1>3. c \in 0 .. m
  BY <1>2, IndexType
<1>4. PICK n : n = FindIn(t, m, k)
  OBVIOUS
<1>5. Found(t[c], k, n)
  BY <1>2, <1>4, FindInChain
<1>6. In(t[c], x)
  <2>1. PICK i \in 0 .. m : In(t[i], x)
    BY DEF Has
  <2>2. i = c
    BY <1>1, <1>2, <2>1, NotElsewhere
  <2>3. QED
    BY <2>1, <2>2
<1>7. n \in 1 .. Len(t[c]) /\ t[c][n].key = k
  BY <1>1, <1>5, <1>6 DEF Found, In
<1>8. t[c][n] = x
  <2>1. Has(t, m, t[c][n])
    BY <1>3, <1>7 DEF Has, In
  <2>2. QED
    BY <1>1, <1>7, <2>1, SameName
<1>9. n # 0
  BY <1>7
<1>10. QED
  BY <1>1, <1>2, <1>4, <1>8, <1>9 DEF ValIn

LEMMA ValOfNone ==
    ASSUME NEW m \in Nat, NEW t, Sound(t, m), NEW k \in Key, \A x : Has(t, m, x) => x.key # k
    PROVE  ValIn(t, m, k) = NoVal
<1>1. PICK c : c = Hash[k] % (m + 1)
  OBVIOUS
<1>2. c \in 0 .. m
  BY <1>1, IndexType
<1>3. Found(t[c], k, FindIn(t, m, k))
  BY <1>1, FindInChain
<1>4. \A p \in 1 .. Len(t[c]) : t[c][p].key # k
  BY <1>2 DEF Has, In
<1>5. FindIn(t, m, k) = 0
  BY <1>3, <1>4 DEF Found
<1>6. QED
  BY <1>5 DEF ValIn

-----------------------------------------------------------------------------
(* What each operation makes of the table.                                 *)
EntryFor(k, v) == [key |-> k, hash |-> Hash[k], val |-> v]

NewEntries(k, v) == IF v = NoVal THEN {} ELSE {EntryFor(k, v)}

\* u is t with the value v for the name k, NoVal for none, walked in d more steps.
Put(t, u, m, k, v, d) ==
    Sound(u, m) /\ Changed(t, u, m, k, NewEntries(k, v)) /\ LongerBy(Walk(t, m), Walk(u, m), d)

\* A table of another size with the same entries.
SameEntries(t, m, u, p) ==
    /\ p \in Nat /\ Sound(u, p)
    /\ \A x : Has(u, p, x) <=> Has(t, m, x)
    /\ Len(Walk(u, p)) = Len(Walk(t, m))

Updated(k, v, d) ==
    /\ max' \in Nat /\ Sound(table', max')
    /\ \A x : Has(table', max', x) <=> (Has(table, max, x) /\ x.key # k) \/ x \in NewEntries(k, v)
    /\ LongerBy(Visited, Visited', d)

LEMMA WalkWalked ==
    ASSUME NEW m \in Nat, NEW t, Sound(t, m)
    PROVE  Walked(Walk(t, m)) /\ Holds(t, m, Walk(t, m), Len(Walk(t, m)))
<1>1. PICK w : w = Walk(t, m)
  OBVIOUS
<1>2. /\ w \in Seq(HashEntry)
      /\ \A p \in 1 .. Len(w) : Has(t, m, w[p])
      /\ \A e : Has(t, m, e) => \E p \in 1 .. Len(w) : w[p] = e
      /\ \A p, r \in 1 .. Len(w) : w[p].key = w[r].key => p = r
  BY <1>1, WalkSound
<1>3. \A e : Has(t, m, e) => e.hash = Hash[e.key]
  BY DEF Has, In, Sound, ChainSound
<1>4. Walked(w)
  BY <1>2, <1>3 DEF Walked
<1>5. Holds(t, m, w, Len(w))
  BY <1>1, <1>2 DEF Holds
<1>6. QED
  BY <1>1, <1>4, <1>5

LEMMA ExpandedSame ==
    ASSUME NEW m \in Nat, NEW t, Sound(t, m)
    PROVE  SameEntries(t, m, Pushed(Walk(t, m), 2 * m + 2, 2 * m + 2), 2 * m + 1)
<1>1. PICK w : w = Walk(t, m)
  OBVIOUS
<1>2. PICK u : u = Pushed(w, 2 * m + 2, 2 * m + 2)
  OBVIOUS
<1>3. PICK p \in Nat : p = 2 * m + 1
  OBVIOUS
<1>4. Walked(w) /\ Holds(t, m, w, Len(w))
  BY <1>1, WalkWalked
<1>5. Holds(u, p, w, Len(w))
  BY <1>2, <1>3, <1>4, ExpandedHolds
<1>6. SameEntries(t, m, u, p)
  BY <1>1, <1>4, <1>5 DEF Holds, SameEntries
<1>7. QED
  BY <1>1, <1>2, <1>3, <1>6

LEMMA StoreKeeps ==
    ASSUME max \in Nat, NEW t, Sound(t, max), NEW n, Store(t, n)
    PROVE  SameEntries(t, max, table', max') /\ count' = n
<1>1. CASE n > max
  <2>1. table' = Pushed(Walk(t, max), 2 * max + 2, 2 * max + 2) /\ max' = 2 * max + 1
    BY <1>1 DEF Store, Expanded
  <2>2. SameEntries(t, max, table', max')
    BY <2>1, ExpandedSame
  <2>3. QED
    BY <2>2 DEF Store
<1>2. CASE ~(n > max)
  <2>1. table' = t /\ max' = max /\ count' = n
    BY <1>2 DEF Store
  <2>2. QED
    BY <2>1 DEF SameEntries
<1>3. QED
  BY <1>1, <1>2

LEMMA PutStored ==
    ASSUME max \in Nat, NEW k, NEW v, NEW d, NEW t, Put(table, t, max, k, v, d),
           NEW n, Store(t, n)
    PROVE  Updated(k, v, d) /\ count' = n
<1>1. SameEntries(t, max, table', max') /\ count' = n
  BY StoreKeeps DEF Put
<1>2. \A x : Has(table', max', x) <=> (Has(table, max, x) /\ x.key # k) \/ x \in NewEntries(k, v)
  BY <1>1 DEF SameEntries, Put, Changed
<1>3. LongerBy(Visited, Visited', d)
  BY <1>1 DEF SameEntries, Put, LongerBy, Visited
<1>4. QED
  BY <1>1, <1>2, <1>3 DEF SameEntries, Updated

\* The chain of a name, and where a lookup finds the name in it.
LEMMA FindIs ==
    ASSUME max \in Nat, Sound(table, max), NEW k \in Key
    PROVE  /\ Index(k) \in 0 .. max /\ Index(k) = Hash[k] % (max + 1)
           /\ ChainSound(table[Index(k)], Index(k), max)
           /\ Found(table[Index(k)], k, Find(k))
<1>1. Index(k) = Hash[k] % (max + 1)
  BY DEF Index
<1>2. Index(k) \in 0 .. max
  BY <1>1, IndexType
<1>3. ChainSound(table[Index(k)], Index(k), max)
  BY <1>2 DEF Sound
<1>4. Find(k) = FindIn(table, max, k)
  BY DEF Find, FindIn, Index
<1>5. Found(table[Index(k)], k, Find(k))
  BY <1>1, <1>4, FindInChain
<1>6. QED
  BY <1>1, <1>2, <1>3, <1>5

LEMMA ReplaceUpdates ==
    ASSUME max \in Nat, Sound(table, max), NEW k \in Key, NEW v \in Val, Replace(k, v)
    PROVE  Updated(k, v, 0) /\ count' = count
<1>1. PICK c : c = Index(k)
  OBVIOUS
<1>2. PICK s : s = table[c]
  OBVIOUS
<1>3. PICK p : p = Find(k)
  OBVIOUS
<1>4. /\ c \in 0 .. max /\ c = Hash[k] % (max + 1)
      /\ ChainSound(s, c, max) /\ Found(s, k, p)
  BY <1>1, <1>2, <1>3, FindIs
<1>5. p \in 1 .. Len(s) /\ s[p].key = k
  <2>1. p > 0
    BY <1>3 DEF Replace
  <2>2. QED
    BY <1>4, <2>1 DEF Found
<1>6. PICK r : r = [s EXCEPT ![p].val = v]
  OBVIOUS
<1>7. PICK e : e = [s[p] EXCEPT !.val = v]
  OBVIOUS
<1>8. ChainSound(r, c, max) /\ Len(r) = Len(s) /\ ChainChanged(s, r, k, {e})
  <2>1. Revalues(s, k, v, r, e)
    BY <1>5, <1>6, <1>7 DEF Revalues
  <2>2. QED
    BY <1>4, <2>1, Revalued
<1>9. {e} = NewEntries(k, v)
  <2>1. s[p] \in HashEntry /\ s[p].hash = Hash[k]
    BY <1>4, <1>5 DEF ChainSound
  <2>2. e = EntryFor(k, v)
    BY <1>5, <1>7, <2>1 DEF EntryFor, HashEntry
  <2>3. v # NoVal
    BY NoValAssumption
  <2>4. QED
    BY <2>2, <2>3 DEF NewEntries
<1>10. PICK t : t = [table EXCEPT ![c] = r]
  OBVIOUS
<1>11. LongerBy(s, r, 0)
  <2>1. Len(s) \in Nat
    BY <1>4 DEF ChainSound
  <2>2. QED
    BY <1>8, <2>1 DEF LongerBy
<1>12. Put(table, t, max, k, v, 0)
  BY <1>2, <1>4, <1>8, <1>9, <1>10, <1>11, ChainReplaced DEF Put
<1>13. Store(t, count)
  <2>1. t = [table EXCEPT ![Index(k)][Find(k)].val = v]
    BY <1>1, <1>2, <1>3, <1>6, <1>10
  <2>2. QED
    BY <2>1 DEF Replace
<1>14. QED
  BY <1>12, <1>13, PutStored

LEMMA AddUpdates ==
    ASSUME max \in Nat, Sound(table, max), NEW k \in Key, NEW v \in Val, Add(k, v)
    PROVE  Updated(k, v, 1) /\ count' = count + 1
<1>1. PICK c : c = Index(k)
  OBVIOUS
<1>2. PICK s : s = table[c]
  OBVIOUS
<1>3. PICK e : e = EntryFor(k, v)
  OBVIOUS
<1>4. /\ c \in 0 .. max /\ c = Hash[k] % (max + 1)
      /\ ChainSound(s, c, max) /\ Found(s, k, 0)
  BY <1>1, <1>2, FindIs DEF Add
<1>5. e.key = k /\ Fits(e, c, max)
  <2>1. Hash[k] \in Nat
    BY HashAssumption
  <2>2. QED
    BY <1>3, <1>4, <2>1 DEF EntryFor, Fits, HashEntry
<1>6. \A n \in 1 .. Len(s) : s[n].key # e.key
  BY <1>4, <1>5 DEF Found
<1>7. PICK r : r = Append(s, e)
  OBVIOUS
<1>8. Gains(s, r, e, c, max)
  BY <1>4, <1>5, <1>6, <1>7, PutBehind
<1>9. {e} = NewEntries(k, v)
  BY <1>3, NoValAssumption DEF NewEntries
<1>10. PICK t : t = [table EXCEPT ![c] = r]
  OBVIOUS
<1>11. LongerBy(s, r, 1) /\ ChainSound(r, c, max) /\ ChainChanged(s, r, k, {e})
  BY <1>5, <1>8 DEF LongerBy, Gains
<1>12. Put(table, t, max, k, v, 1)
  BY <1>2, <1>4, <1>9, <1>10, <1>11, ChainReplaced DEF Put
<1>13. Store(t, count + 1)
  <2>1. t = [table EXCEPT ![Index(k)] = Append(@, EntryFor(k, v))]
    BY <1>1, <1>2, <1>3, <1>7, <1>10
  <2>2. QED
    BY <2>1 DEF Add, EntryFor
<1>14. QED
  BY <1>12, <1>13, PutStored

LEMMA DeleteUpdates ==
    ASSUME max \in Nat, Sound(table, max), NEW k \in Key, Delete(k)
    PROVE  Updated(k, NoVal, -1) /\ count' = count - 1
<1>1. PICK c : c = Index(k)
  OBVIOUS
<1>2. PICK s : s = table[c]
  OBVIOUS
<1>3. PICK p : p = Find(k)
  OBVIOUS
<1>4. /\ c \in 0 .. max /\ c = Hash[k] % (max + 1)
      /\ ChainSound(s, c, max) /\ Found(s, k, p)
  BY <1>1, <1>2, <1>3, FindIs
<1>5. p \in 1 .. Len(s) /\ s[p].key = k
  <2>1. p > 0
    BY <1>3 DEF Delete
  <2>2. QED
    BY <1>4, <2>1 DEF Found
<1>6. PICK r : r = RemoveAt(s, p)
  OBVIOUS
<1>7. ChainSound(r, c, max) /\ Len(r) = Len(s) - 1 /\ ChainChanged(s, r, k, {})
  BY <1>4, <1>5, <1>6, TakenOut
<1>8. {} = NewEntries(k, NoVal)
  BY DEF NewEntries
<1>9. PICK t : t = [table EXCEPT ![c] = r]
  OBVIOUS
<1>10. LongerBy(s, r, -1)
  <2>1. Len(s) \in Nat
    BY <1>4 DEF ChainSound
  <2>2. QED
    BY <1>7, <2>1 DEF LongerBy
<1>11. Put(table, t, max, k, NoVal, -1)
  BY <1>2, <1>4, <1>7, <1>8, <1>9, <1>10, ChainReplaced DEF Put
<1>12. table' = t /\ max' = max /\ count' = count - 1
  BY <1>1, <1>2, <1>3, <1>6, <1>9 DEF Delete
<1>13. QED
  BY <1>11, <1>12 DEF Put, Changed, Updated, Visited

-----------------------------------------------------------------------------
(* The theorems about the hash tables.                                     *)
LEMMA WalkWithinKeys ==
    ASSUME NEW m \in Nat, NEW t, Sound(t, m)
    PROVE  Len(Walk(t, m)) \in Nat /\ Len(Walk(t, m)) <= Cardinality(Key)
<1>1. PICK w : w = Walk(t, m)
  OBVIOUS
<1>2. Walked(w)
  BY <1>1, WalkWalked
<1>3. Len(w) \in Nat
  BY <1>2 DEF Walked
<1> DEFINE f == [p \in 1 .. Len(w) |-> w[p].key]
<1>4. f \in Injection(1 .. Len(w), Key)
  <2>1. \A p \in 1 .. Len(w) : w[p] \in HashEntry
    BY <1>2 DEF Walked
  <2>2. f \in [1 .. Len(w) -> Key]
    BY <2>1 DEF HashEntry
  <2>3. \A p, r \in 1 .. Len(w) : f[p] = f[r] => p = r
    BY <1>2 DEF Walked
  <2> HIDE DEF f
  <2>4. QED
    BY <2>2, <2>3 DEF Injection, IsInjective
<1> HIDE DEF f
<1>5. Cardinality(1 .. Len(w)) <= Cardinality(Key)
  BY <1>4, FS_Injection, KeyAssumption
<1>6. Cardinality(1 .. Len(w)) = Len(w)
  <2>1. PICK l \in Nat : l = Len(w)
    BY <1>3
  <2>2. Cardinality(1 .. l) = IF 1 > l THEN 0 ELSE l - 1 + 1
    BY FS_Interval
  <2>3. QED
    BY <2>1, <2>2
<1>7. QED
  BY <1>1, <1>3, <1>5, <1>6

LEMMA HashStep ==
    ASSUME HashInv, HashNext
    PROVE  \E k \in Key, v \in Val \cup {NoVal}, d \in {-1, 0, 1} :
              /\ Updated(k, v, d) /\ count' = count + d
              /\ \/ d = 0 /\ free' = free /\ heap' = heap
                 \/ d = -1 /\ free' = free + 1 /\ heap' = heap
                 \/ d = 1 /\ free > 0 /\ free' = free - 1 /\ heap' = heap
                 \/ d = 1 /\ ~(free > 0) /\ free' = free /\ heap' = heap + 1
<1>1. max \in Nat /\ Sound(table, max) /\ count \in Nat
  BY DEF HashInv, HashTypeOK
<1>2. CASE \E k \in Key, v \in Val : Replace(k, v)
  <2>1. PICK k \in Key, v \in Val : Replace(k, v)
    BY <1>2
  <2>2. Updated(k, v, 0) /\ count' = count + 0
    BY <1>1, <2>1, ReplaceUpdates
  <2>3. free' = free /\ heap' = heap
    BY <2>1 DEF Replace
  <2>4. QED
    BY <2>2, <2>3
<1>3. CASE \E k \in Key, v \in Val : Add(k, v)
  <2>1. PICK k \in Key, v \in Val : Add(k, v)
    BY <1>3
  <2>2. Updated(k, v, 1) /\ count' = count + 1
    BY <1>1, <2>1, AddUpdates
  <2>3. \/ free > 0 /\ free' = free - 1 /\ heap' = heap
        \/ ~(free > 0) /\ free' = free /\ heap' = heap + 1
    BY <2>1 DEF Add
  <2>4. QED
    BY <2>2, <2>3
<1>4. CASE \E k \in Key : Delete(k)
  <2>1. PICK k \in Key : Delete(k)
    BY <1>4
  <2>2. Updated(k, NoVal, -1) /\ count' = count + (-1)
    BY <1>1, <2>1, DeleteUpdates
  <2>3. free' = free + 1 /\ heap' = heap
    BY <2>1 DEF Delete
  <2>4. QED
    BY <2>2, <2>3
<1>5. QED
  BY <1>2, <1>3, <1>4 DEF HashNext

LEMMA HashInvStep ==
    ASSUME HashInv, [HashNext]_hashVars
    PROVE  HashInv'
<1>1. CASE HashNext
  <2>1. PICK k \in Key, v \in Val \cup {NoVal}, d \in {-1, 0, 1} :
              /\ Updated(k, v, d) /\ count' = count + d
              /\ \/ d = 0 /\ free' = free /\ heap' = heap
                 \/ d = -1 /\ free' = free + 1 /\ heap' = heap
                 \/ d = 1 /\ free > 0 /\ free' = free - 1 /\ heap' = heap
                 \/ d = 1 /\ ~(free > 0) /\ free' = free /\ heap' = heap + 1
    BY <1>1, HashStep
  <2>2. max' \in Nat /\ Sound(table', max')
    BY <2>1 DEF Updated
  <2>3. Len(Visited)' = count'
    BY <2>1 DEF Updated, LongerBy, HashInv
  <2>4. count' \in Nat /\ count' <= Cardinality(Key)
    BY <2>2, <2>3, WalkWithinKeys DEF Visited
  <2>5. count \in Nat /\ free \in Nat /\ heap \in Nat /\ heap = count + free
    BY DEF HashInv, HashTypeOK
  <2>6. free' \in Nat /\ heap' \in Nat /\ heap' = count' + free'
    BY <2>1, <2>4, <2>5
  <2>7. heap' <= Cardinality(Key)
    <3>1. Cardinality(Key) \in Nat /\ heap <= Cardinality(Key)
      BY KeyAssumption, FS_CardinalityType DEF HashInv
    <3>2. QED
      BY <2>1, <2>4, <2>5, <3>1
  <2>8. table' \in [0 .. max' -> Seq(HashEntry)]
    BY <2>2 DEF Sound, ChainSound
  <2>9. QED
    BY <2>2, <2>3, <2>4, <2>6, <2>7, <2>8 DEF HashInv, HashTypeOK
<1>2. CASE UNCHANGED hashVars
  BY <1>2 DEF HashInv, HashTypeOK, Visited, hashVars
<1>3. QED
  BY <1>1, <1>2

LEMMA HashInvInit == ASSUME HashInit PROVE HashInv
<1>1. max \in Nat /\ count = 0 /\ free = 0 /\ heap = 0 /\ table = [n \in 0 .. max |-> <<>>]
  BY MaxAssumption DEF HashInit
<1>2. <<>> \in Seq(HashEntry) /\ Len(<<>>) = 0
  OBVIOUS
<1>3. \A i : ChainSound(<<>>, i, max)
  BY <1>2 DEF ChainSound
<1>4. Sound(table, max)
  BY <1>1, <1>3 DEF Sound
<1>5. Len(Visited) = 0
  BY <1>1, WalkOfNone DEF Visited
<1>6. Cardinality(Key) \in Nat
  BY KeyAssumption, FS_CardinalityType
<1>7. HashTypeOK
  BY <1>1, <1>2 DEF HashTypeOK
<1>8. QED
  BY <1>1, <1>4, <1>5, <1>6, <1>7 DEF HashInv

LEMMA HashInvariant == HashSpec => []HashInv
<1>1. HashInit => HashInv
  BY HashInvInit
<1>2. HashInv /\ [HashNext]_hashVars => HashInv'
  BY HashInvStep
<1>3. QED
  BY <1>1, <1>2, PTL DEF HashSpec

(* shmapr_hash_set keeps the types: after any number of sets and growths   *)
(* the array has max + 1 chains of entries.                                *)
THEOREM TablesTyped == HashSpec => []HashTypeOK
<1>1. HashInv => HashTypeOK
  BY DEF HashInv
<1>2. QED
  BY <1>1, HashInvariant, PTL

(* However many names there are, and whatever their hashes: a walk by      *)
(* shmapr_hash_first and shmapr_hash_next meets each name of the table     *)
(* once and as many as shmapr_hash_count says, through every collision,    *)
(* removal and growth, and the table takes no more entries from the shared *)
(* heap than there are names.                                              *)
THEOREM WalksVisitOnce == HashSpec => []VisitsEachOnce
<1>1. HashInv => VisitsEachOnce
  <2> SUFFICES ASSUME HashInv PROVE VisitsEachOnce
    OBVIOUS
  <2>1. max \in Nat /\ Sound(table, max)
    BY DEF HashInv, HashTypeOK
  <2>2. \A n, m \in 1 .. Len(Visited) : Visited[n].key = Visited[m].key => n = m
    BY <2>1, WalkSound DEF Visited
  <2>3. QED
    BY <2>2 DEF HashInv, VisitsEachOnce
<1>2. QED
  BY <1>1, HashInvariant, PTL

LEMMA ValOfIs == ASSUME NEW k PROVE ValOf(k) = ValIn(table, max, k)
BY DEF ValOf, ValIn, Find, FindIn, Index

LEMMA ValOfNextIs == ASSUME NEW k PROVE ValOf(k)' = ValIn(table', max', k)
BY DEF ValOf, ValIn, Find, FindIn, Index, SelectInSeq, IsFor

LEMMA UpdatedVal ==
    ASSUME max \in Nat, Sound(table, max), NEW k \in Key, NEW v \in Val \cup {NoVal}, NEW d,
           Updated(k, v, d), NEW j \in Key
    PROVE  ValIn(table', max', j) = IF j = k THEN v ELSE ValIn(table, max, j)
<1>1. max' \in Nat /\ Sound(table', max')
  BY DEF Updated
<1>2. \A x : Has(table', max', x) <=> (Has(table, max, x) /\ x.key # k) \/ x \in NewEntries(k, v)
  BY DEF Updated
<1>3. \A x \in NewEntries(k, v) : v # NoVal /\ x.key = k /\ x.val = v
  BY DEF NewEntries, EntryFor
<1>4. CASE j = k /\ v = NoVal
  <2>1. \A x : Has(table', max', x) => x.key # j
    BY <1>2, <1>3, <1>4
  <2>2. QED
    BY <1>1, <1>4, <2>1, ValOfNone
<1>5. CASE j = k /\ v # NoVal
  <2>1. PICK x : x \in NewEntries(k, v)
    BY <1>5 DEF NewEntries
  <2>2. Has(table', max', x) /\ x.key = j /\ x.val = v
    BY <1>2, <1>3, <1>5, <2>1
  <2>3. QED
    BY <1>1, <1>5, <2>2, ValOfEntry
<1>6. CASE j # k
  <2>1. CASE \E x : Has(table, max, x) /\ x.key = j
    <3>1. PICK x : Has(table, max, x) /\ x.key = j
      BY <2>1
    <3>2. Has(table', max', x)
      BY <1>2, <1>6, <3>1
    <3>3. ValIn(table, max, x.key) = x.val /\ ValIn(table', max', x.key) = x.val
      BY <1>1, <3>1, <3>2, ValOfEntry
    <3>4. QED
      BY <1>6, <3>1, <3>3
  <2>2. CASE \A x : Has(table, max, x) => x.key # j
    <3>1. \A x : Has(table', max', x) => x.key # j
      BY <1>2, <1>3, <1>6, <2>2
    <3>2. ValIn(table, max, j) = NoVal /\ ValIn(table', max', j) = NoVal
      BY <1>1, <2>2, <3>1, ValOfNone
    <3>3. QED
      BY <1>6, <3>2
  <2>3. QED
    BY <2>1, <2>2
<1>7. QED
  BY <1>4, <1>5, <1>6

LEMMA MapInit == ASSUME HashInit PROVE Map!Init
<1>1. max \in Nat /\ table = [n \in 0 .. max |-> <<>>]
  BY MaxAssumption DEF HashInit
<1>2. Sound(table, max)
  BY HashInvInit DEF HashInv
<1>3. \A x : ~Has(table, max, x)
  BY <1>1 DEF Has, In
<1>4. \A k \in Key : ValOf(k) = NoVal
  BY <1>1, <1>2, <1>3, ValOfIs, ValOfNone
<1>5. QED
  BY <1>4 DEF Map!Init

LEMMA MapStep ==
    ASSUME HashInv, [HashNext]_hashVars
    PROVE  [Map!Next]_([k \in Key |-> ValOf(k)])
<1>1. CASE HashNext
  <2>1. PICK k \in Key, v \in Val \cup {NoVal}, d \in {-1, 0, 1} : Updated(k, v, d)
    BY <1>1, HashStep
  <2>2. max \in Nat /\ Sound(table, max)
    BY DEF HashInv, HashTypeOK
  <2>3. \A j \in Key : ValOf(j)' = IF j = k THEN v ELSE ValOf(j)
    BY <2>1, <2>2, UpdatedVal, ValOfIs, ValOfNextIs
  <2>4. [j \in Key |-> ValOf(j)]' = [[j \in Key |-> ValOf(j)] EXCEPT ![k] = v]
    BY <2>3
  <2>5. Map!Set(k, v)
    BY <2>4 DEF Map!Set
  <2>6. QED
    BY <2>5 DEF Map!Next
<1>2. CASE UNCHANGED hashVars
  <2>1. \A j \in Key : ValOf(j)' = ValOf(j)
    BY <1>2, ValOfIs, ValOfNextIs DEF hashVars
  <2>2. QED
    BY <2>1
<1>3. QED
  BY <1>1, <1>2

(* The table is a map, for every set of names, every hash function and     *)
(* every first size: shmapr_hash_get answers with the value last set for   *)
(* the name, NULL if it has none, and a step of shmapr_hash_set changes    *)
(* what is answered for its own name only.                                 *)
THEOREM TablesAreMaps == HashSpec => ImplementsMap
<1>1. HashInit => Map!Init
  BY MapInit
<1>2. HashInv /\ [HashNext]_hashVars => [Map!Next]_([k \in Key |-> ValOf(k)])
  BY MapStep
<1>3. QED
  BY <1>1, <1>2, HashInvariant, PTL DEF HashSpec, ImplementsMap, Map!Spec
=============================================================================
