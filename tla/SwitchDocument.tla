--------------------------- MODULE SwitchDocument ---------------------------
(***************************************************************************)
(* From switch-config.xml to an answer.  expat calls xml_core at every     *)
(* start and end of an element and for every piece of text between them;   *)
(* xml_core keeps the path of open elements and calls the handlers whose   *)
(* path it is; the handlers gather modules and switches through a bundle   *)
(* of two pointers; switchconf_build turns what they gathered into the     *)
(* configuration that libswitch_isSwitchEnabled looks names and values up  *)
(* in.                                                                     *)
(*                                                                         *)
(* Abstractions: a text is the sequence of the pieces expat delivers; what *)
(* atol, the regular expressions and the lists make of a text are          *)
(* constants.  A hash table is a function (SwitchHash) and an array a set  *)
(* (SwitchArrays).  Elements of other names are "note".                    *)
(***************************************************************************)
EXTENDS Integers, SequencesExt

CONSTANTS
    Id, Name, Type,    \* attributes of modules and switches in the document
    None,              \* an attribute, or a pointer, that is not there
    Piece,             \* pieces of text
    Long,              \* what atol makes of a text
    Compiles,          \* the texts that are regular expressions
    Regex,             \* the pairs of a regular expression and its match
    List,              \* the elements of a comma-separated text
    Remote, Local,     \* the elements of the file a text names, in the
                       \* repository and in the home directory, or None
    MaxPieces,         \* bound: pieces in one text
    MaxModules,        \* bound: modules in a document
    MaxSwitches,       \* bound: switches in a document
    MaxOthers          \* bound: elements where no handler looks

ASSUME BoundAssumption ==
    {MaxPieces, MaxModules, MaxSwitches, MaxOthers} \subseteq Nat

Text == UNION {[1 .. n -> Piece] : n \in 1 .. MaxPieces}

\* The words of the attribute "type"; "other" is any that is not known.
Types == {"boolean", "long", "string", "regex", "longArray", "stringArray",
          "regexArray", "longFile", "stringFile", "regexFile", "other"}

ASSUME TypeAssumption == Type \subseteq Types

\* regexec is called with what regcomp accepted only.
ASSUME TextAssumption ==
    /\ Long \in [Text -> Int]
    /\ List \in [Text -> SUBSET Text]
    /\ {Remote, Local} \subseteq [Text -> (SUBSET Text) \cup {None}]
    /\ Regex \subseteq Compiles \X Text

\* A switch, the switches of a module, a module, and modules, as they are
\* gathered: hash tables are functions.
Entry == [type : Type \cup {"unknown", "boolean"}, value : Text \cup {<<>>}]
Params == UNION {[N -> Entry] : N \in SUBSET Name}
Module == [id : Id, params : Params]
Modules == UNION {[M -> Params] : M \in SUBSET Id}

ASSUME NoneAssumption == None \notin Id \cup Name \cup Types \cup Module

VARIABLES
    nodes,     \* xCore->xpath_nodes: the names of the open elements
    body,      \* xrec->body of the handler of switches, <<>> for NULL
    userdata,  \* the module of the bundle
    userdata2, \* the switch of the bundle
    modules,   \* conf->modules
    pc,        \* "parse", "parsed", "failed", "crashed" or "built"
    config     \* the modules of the configuration that was built

\* History and bounds: the modules and switches of the document in the order
\* they are written, and the number of its other elements.
VARIABLES written, others

reader == <<nodes, body, userdata, userdata2, modules>>
vars == <<reader, pc, config, written, others>>

ModulePath == <<"switch-config", "modules", "module">>
SwitchPath == Append(ModulePath, "switch")

Init ==
    /\ nodes = Front(ModulePath)
    /\ body = <<>> /\ userdata = None /\ userdata2 = None
    /\ modules = <<>>
    /\ pc = "parse"
    /\ config = <<>>
    /\ written = <<>> /\ others = 0

-----------------------------------------------------------------------------
(* Reading.  Only the path of the open elements says which handler is      *)
(* called (xmlcore_matchNodeDLists).                                       *)

\* A hash table with one more entry, or another value in an old one.
With(f, k, v) == [n \in DOMAIN f \cup {k} |-> IF n = k THEN v ELSE f[n]]

Kind(type) ==
    IF type = None THEN "unknown"
    ELSE IF type = "other" THEN "boolean" ELSE type

SwitchCount == FoldLeft(LAMBDA n, m : n + Len(m.switches), 0, written)

Open(el) == pc = "parse" /\ nodes' = Append(nodes, el) /\ UNCHANGED <<pc, config>>
Close == pc = "parse" /\ nodes' = Front(nodes) /\ UNCHANGED config

StartModule ==
    /\ Open("module")
    /\ nodes' = ModulePath
    /\ Len(written) < MaxModules
    /\ \E id \in Id \cup {None} :
          /\ written' = Append(written, [id |-> id, switches |-> <<>>])
          /\ userdata' = IF id = None THEN None
                         ELSE [id |-> id, params |-> <<>>]
    /\ UNCHANGED <<body, userdata2, modules, others>>

StartSwitch ==
    /\ Open("switch")
    /\ nodes' = SwitchPath
    /\ SwitchCount < MaxSwitches
    /\ \E name \in Name \cup {None}, type \in Type \cup {None} :
          /\ userdata2' = [name |-> name, type |-> Kind(type)]
          /\ written' = [written EXCEPT ![Len(written)].switches =
                            Append(@, [name |-> name, type |-> type,
                                       text |-> <<>>])]
    /\ UNCHANGED <<body, userdata, modules, others>>

StartOther ==
    /\ \E el \in {"module", "switch", "note"} : Open(el)
    /\ nodes' \notin {ModulePath, SwitchPath}
    /\ others < MaxOthers
    /\ others' = others + 1
    /\ UNCHANGED <<body, userdata, userdata2, modules, written>>

\* A piece of the text of a switch.
CharacterData ==
    /\ pc = "parse"
    /\ nodes = SwitchPath
    /\ Len(body) < MaxPieces
    /\ \E p \in Piece :
          /\ body' = Append(body, p)
          /\ LET m == Len(written)
                 s == Len(written[m].switches)
             IN  written' = [written EXCEPT ![m].switches[s].text = Append(@, p)]
    /\ UNCHANGED <<nodes, userdata, userdata2, modules, pc, config, others>>

\* The module takes the switch; apr_hash_set reads the name, which may be
\* a null pointer.
EndSwitch_Body ==
    /\ nodes = SwitchPath
    /\ Close
    /\ body' = body /\ userdata2' = None
    /\ IF userdata = None
       THEN UNCHANGED <<userdata, pc>>
       ELSE IF userdata2.name = None
       THEN pc' = "crashed" /\ UNCHANGED userdata
       ELSE /\ userdata' = [userdata EXCEPT !.params =
                  With(@, userdata2.name, [type |-> userdata2.type, value |-> body])]
            /\ UNCHANGED pc
    /\ UNCHANGED <<modules, written, others>>

EndSwitch ==
    /\ nodes = SwitchPath
    /\ Close
    /\ body' = <<>> /\ userdata2' = None
    /\ IF userdata = None
       THEN UNCHANGED <<userdata, pc>>
       ELSE IF userdata2.name = None
       THEN pc' = "crashed" /\ UNCHANGED userdata
       ELSE /\ userdata' = [userdata EXCEPT !.params =
                  With(@, userdata2.name, [type |-> userdata2.type, value |-> body])]
            /\ UNCHANGED pc
    /\ UNCHANGED <<modules, written, others>>

EndModule ==
    /\ nodes = ModulePath
    /\ Close
    /\ modules' = IF userdata = None THEN modules
                  ELSE With(modules, userdata.id, userdata.params)
    /\ userdata' = None /\ userdata2' = None
    /\ UNCHANGED <<body, pc, written, others>>

EndOther ==
    /\ nodes \notin {Front(ModulePath), ModulePath, SwitchPath}
    /\ Close
    /\ UNCHANGED <<body, userdata, userdata2, modules, pc, written, others>>

EndDocument ==
    /\ pc = "parse"
    /\ nodes = Front(ModulePath)
    /\ pc' = "parsed"
    /\ UNCHANGED <<reader, config, written, others>>

\* expat finds an error: what was gathered so far is dropped.
ParseError ==
    /\ pc = "parse"
    /\ pc' = "failed"
    /\ UNCHANGED <<reader, config, written, others>>

-----------------------------------------------------------------------------
(* Building.  A value is a machine word, and the word 0 is NULL.           *)

Word(n) == <<"word", n>>
Null == Word(0)
Pointer(x) == <<"pointer", x>>

\* STRTOBOOL.
Boolean(t) == IF t = <<"on">> THEN 1 ELSE 0

Longs(texts) == {Long[t] : t \in texts}

\* The file of a text, when the repository answers and when it does not; an
\* empty file is not taken from the repository.
File(t, up) == IF up /\ Remote[t] \notin {None, {}} THEN Remote[t] ELSE Local[t]

\* What the three insert functions make of the lines of a file.
BuildFromFile(type, lines) ==
    IF lines = None THEN Null
    ELSE CASE type = "longFile"   -> Pointer(Longs(lines))
           [] type = "stringFile" -> Pointer(lines)
           [] type = "regexFile"  -> Pointer(lines \cap Compiles)

ValueOf(e, up) ==
    IF e.value = <<>> THEN Null
    ELSE CASE e.type = "unknown"             -> Null
           [] e.type = "boolean"             -> Word(Boolean(e.value))
           [] e.type = "long"                -> Word(Long[e.value])
           [] e.type \in {"string", "regex"} -> Pointer(e.value)
           [] e.type = "longArray"           -> Pointer(Longs(List[e.value]))
           [] e.type \in {"stringArray", "regexArray"} -> Pointer(List[e.value])
           [] OTHER -> BuildFromFile(e.type, File(e.value, up))

Element(e, up) == [type |-> e.type, value |-> ValueOf(e, up)]

\* Every file is asked for by itself, and the repository may answer for one
\* and not for the next.
Build ==
    /\ pc = "parsed"
    /\ pc' = "built"
    /\ \E answered \in [Id \X Name -> BOOLEAN] :
          config' = [m \in DOMAIN modules |->
                        [n \in DOMAIN modules[m] |->
                            Element(modules[m][n], answered[<<m, n>>])]]
    /\ UNCHANGED <<reader, written, others>>

Next ==
    \/ StartModule \/ StartSwitch \/ StartOther
    \/ CharacterData
    \/ EndSwitch \/ EndModule \/ EndOther
    \/ EndDocument \/ ParseError \/ Build

Spec == Init /\ [][Next]_vars

-----------------------------------------------------------------------------
(* Answering.                                                              *)

Enables(e, v) ==
    /\ e.value # Null
    /\ CASE e.type = "boolean"           -> Boolean(v) = e.value[2]
         [] e.type = "long"              -> Long[v] = e.value[2]
         [] e.type = "string"            -> v = e.value[2]
         [] e.type = "regex"             -> <<e.value[2], v>> \in Regex
         [] e.type \in {"longArray", "longFile"}     -> Long[v] \in e.value[2]
         [] e.type \in {"stringArray", "stringFile"} -> v \in e.value[2]
         [] e.type \in {"regexArray", "regexFile"}   ->
               \E r \in e.value[2] : <<r, v>> \in Regex
         [] OTHER                        -> FALSE

IsSwitchEnabled(m, n, v) ==
    /\ m \in DOMAIN config
    /\ n \in DOMAIN config[m]
    /\ Enables(config[m][n], v)

-----------------------------------------------------------------------------
(* Every variable holds a value of its type (switch_config_xml.c,          *)
(* xml_core.c).                                                            *)
TypeOK ==
    /\ nodes \in Seq({"switch-config", "modules", "module", "switch", "note"})
    /\ body \in Text \cup {<<>>}
    /\ userdata \in Module \cup {None}
    /\ userdata2 \in [name : Name \cup {None},
                      type : Type \cup {"unknown", "boolean"}] \cup {None}
    /\ modules \in Modules
    /\ DOMAIN config \subseteq Id
    /\ pc \in {"parse", "parsed", "failed", "crashed", "built"}

\* The indices of the modules written with an id, and of the switches with a
\* name in the last of them.
WrittenModules(m) == {k \in DOMAIN written : written[k].id = m}
WrittenSwitches(m, n) ==
    LET s == written[Max(WrittenModules(m))].switches
        at == {k \in DOMAIN s : s[k].name = n}
    IN  IF at = {} THEN {} ELSE {s[Max(at)]}

\* What a switch means to who writes it: the texts it stands for - its own,
\* those of its list, or the lines of the file at one of two places -, and
\* when one of them is the value that is asked for.
StandsFor(s, place) ==
    CASE s.type \in {"longArray", "stringArray", "regexArray"} -> List[s.text]
      [] s.type \in {"longFile", "stringFile", "regexFile"}    ->
            IF place[s.text] = None THEN {} ELSE place[s.text]
      [] OTHER                                                 -> {s.text}

Same(type, x, v) ==
    CASE type \in {"boolean", "other"}              -> (x = <<"on">>) = (v = <<"on">>)
      [] type \in {"long", "longArray", "longFile"} -> Long[x] = Long[v]
      [] type \in {"regex", "regexArray", "regexFile"} -> <<x, v>> \in Regex
      [] type \in {"string", "stringArray", "stringFile"} -> x = v

\* A switch that is off and a number that is zero answer no to everything.
Silent(s) ==
    \/ s.type = None \/ s.text = <<>>
    \/ s.type \in {"boolean", "other"} /\ s.text # <<"on">>
    \/ s.type = "long" /\ Long[s.text] = 0

Says(s, place, v) ==
    ~Silent(s) /\ \E x \in StandsFor(s, place) : Same(s.type, x, v)

(* Once a document is built, a lookup answers from the switch as it is     *)
(* written: the last of its name in the last module of that id, by what    *)
(* its own type and its whole text mean - one file, of the repository or   *)
(* of the home directory, for all the values that are asked for -, and no  *)
(* answer is yes where none is written (switchconfxml_loadConfFile,        *)
(* switchconf_build, libswitch_isSwitchEnabled).                           *)
AnswersAsWritten ==
    pc = "built" =>
        \A m \in Id, n \in Name : \E place \in {Remote, Local} : \A v \in Text :
            IsSwitchEnabled(m, n, v) <=>
                /\ WrittenModules(m) # {}
                /\ \E s \in WrittenSwitches(m, n) : Says(s, place, v)
=============================================================================
