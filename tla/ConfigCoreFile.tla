--------------------------- MODULE ConfigCoreFile ---------------------------
(***************************************************************************)
(* Reading config-core.xml: the handlers of config_core2.c, called by      *)
(* xml_core one after the other, fill a config_core, and share a bundle of *)
(* two pointers, the service being read and the name of the parameter      *)
(* being read.  A body handler is called at the end of its element, with   *)
(* NULL if there was no text.                                              *)
(*                                                                         *)
(* A document is the sequence of the elements for which a handler is       *)
(* registered, by their path below /config-core; "service/end" is the end  *)
(* of a service, the namespace attribute of the root an element "nameSpace".*)
(***************************************************************************)
EXTENDS Integers, Sequences, FiniteSets

CONSTANTS
    Text,   \* names and bodies
    Null,   \* an attribute, a body or a pointer that is not there
    Number, \* what atoi and atol make of a text
    On      \* the texts STRTOBOOL takes for true

ASSUME TextAssumption ==
    Null \notin Text /\ Number \in [Text -> Int] /\ On \subseteq Text

\* The structures a pointer may point to.
Maybe == Text \cup {Null}

ServiceDescriptor ==
    [id : Maybe \cup {"RESOURCE_SERVICE"}, name : Maybe \cup {"RESOURCE_SERVICE"},
     uri : Maybe, userColonPass : Maybe, timeoutSeconds : Int,
     params : UNION {[names -> Text] : names \in SUBSET Text}]

BrokerTexts == {"host", "username", "password"}
BrokerNumbers == {"port", "reconnectWaitMillis", "waitTimeSeconds"}

MessageBroker ==
    [host : Maybe, username : Maybe, password : Maybe,
     port : Int, reconnectWaitMillis : Int, waitTimeSeconds : Int]

ASSUME NullAssumption == Null \notin ServiceDescriptor \cup MessageBroker

\* A hash table with one more entry, or another value in an old one; NULL is
\* no value, and removes the entry.
With(f, k, v) ==
    IF v = Null THEN [n \in DOMAIN f \ {k} |-> f[n]]
    ELSE [n \in DOMAIN f \cup {k} |-> IF n = k THEN v ELSE f[n]]

cc_newServiceDescriptorObj(id, name) ==
    [id |-> id, name |-> name, uri |-> Null, userColonPass |-> Null,
     timeoutSeconds |-> 2, params |-> <<>>]

cm_newMessageBrokerObj ==
    [host |-> Null, port |-> 0, username |-> Null, password |-> Null,
     reconnectWaitMillis |-> 20000, waitTimeSeconds |-> 1200]

\* The globals are in it.
cc_newConfigCoreObj ==
    [nameSpace |-> Null, homeDir |-> Null, databaseFile |-> Null,
     sheapMapFile |-> "/pid.shm", sheapPageSize |-> 0, services |-> <<>>,
     resourceService |-> Null, messageBroker |-> Null,
     disableProcessRecovery |-> FALSE, enableAutoRefresh |-> FALSE,
     autoRefreshWaitSeconds |-> 20, threaded |-> FALSE]

\* cc_bundle, and whether the process is still there.
Bundle(cc) == [cc |-> cc, userdata |-> Null, userdata2 |-> Null, alive |-> TRUE]
Dies(b) == [b EXCEPT !.alive = FALSE]

-----------------------------------------------------------------------------
(* Settings.                                                               *)
Copied == {"nameSpace", "homeDir", "sheapMapFile", "databaseFile"}
Flags == {"disableProcessRecovery", "enableAutoRefresh", "threaded"}

Copy(b, e) == [b EXCEPT !.cc[e.el] = e.body]
Flag(b, e) == [b EXCEPT !.cc[e.el] = e.body \in On]

\* atoi(NULL).
cc_setCCSheapPageSizeBody(b, e) ==
    IF e.body = Null THEN Dies(b)
    ELSE [b EXCEPT !.cc.sheapPageSize = Number[e.body]]

cc_setCCAutoRefreshWaitSecondsBody(b, e) ==
    IF e.body = Null THEN b
    ELSE [b EXCEPT !.cc.autoRefreshWaitSeconds = Number[e.body]]

-----------------------------------------------------------------------------
(* The services.                                                           *)
cc_setCCServiceAttributes(b, e) ==
    [b EXCEPT !.userdata = IF e.id = Null THEN Null
                           ELSE cc_newServiceDescriptorObj(e.id, e.name)]

cc_setCCServiceUriBody(b, e) ==
    IF b.userdata = Null THEN b ELSE [b EXCEPT !.userdata.uri = e.body]

cc_setCCServiceTimeoutBody(b, e) ==
    IF b.userdata = Null THEN b
    ELSE IF e.body = Null THEN Dies(b)
    ELSE [b EXCEPT !.userdata.timeoutSeconds = Number[e.body]]

\* Mutant: a parameter without a name takes the name of the one before.
cc_setCCServiceParamAttributes_Keeps(b, e) ==
    IF e.name = Null THEN b ELSE [b EXCEPT !.userdata2 = e.name]

cc_setCCServiceParamAttributes(b, e) == [b EXCEPT !.userdata2 = e.name]

cc_setCCServiceParamBody(b, e) ==
    IF b.userdata = Null \/ b.userdata2 = Null THEN b
    ELSE [b EXCEPT !.userdata.params = With(@, b.userdata2, e.body)]

\* The id of a service that had none is read through a null pointer.
cc_setCCServiceEnd(b) ==
    IF b.userdata = Null THEN Dies(b)
    ELSE [b EXCEPT !.cc.services = Append(@, b.userdata),
                   !.userdata = Null, !.userdata2 = Null]

-----------------------------------------------------------------------------
(* The resource service and the message broker.                            *)
cc_setResourceServiceAttributes(b) ==
    [b EXCEPT !.cc.resourceService =
        cc_newServiceDescriptorObj("RESOURCE_SERVICE", "RESOURCE_SERVICE")]

cc_setResourceServiceTextBody(b, f, e) ==
    [b EXCEPT !.cc.resourceService = [@ EXCEPT ![f] = e.body]]

cc_setResourceServiceTimeoutBody(b, e) ==
    IF e.body = Null THEN Dies(b)
    ELSE [b EXCEPT !.cc.resourceService.timeoutSeconds = Number[e.body]]

cc_setResourceServiceParamAttributes(b, e) == [b EXCEPT !.userdata2 = e.name]

cc_setMessageBrokerAttributes(b) ==
    [b EXCEPT !.cc.messageBroker = cm_newMessageBrokerObj]

cc_setMessageBrokerTextBody(b, f, e) ==
    [b EXCEPT !.cc.messageBroker = [@ EXCEPT ![f] = e.body]]

cc_setMessageBrokerNumberBody(b, f, e) ==
    IF e.body = Null THEN Dies(b)
    ELSE [b EXCEPT !.cc.messageBroker = [@ EXCEPT ![f] = Number[e.body]]]

-----------------------------------------------------------------------------
\* The handlers that are registered: cc_setResourceServiceTimeoutBody is also
\* that of a param of the resource service.
Handled(b, e) ==
    CASE e.el \in Copied -> Copy(b, e)
      [] e.el \in Flags -> Flag(b, e)
      [] e.el = "sheapPageSize" -> cc_setCCSheapPageSizeBody(b, e)
      [] e.el = "autoRefreshWaitSeconds" -> cc_setCCAutoRefreshWaitSecondsBody(b, e)
      [] e.el = "messageBroker" -> cc_setMessageBrokerAttributes(b)
      [] e.el = "broker" ->
            IF e.name \in BrokerTexts THEN cc_setMessageBrokerTextBody(b, e.name, e)
            ELSE cc_setMessageBrokerNumberBody(b, e.name, e)
      [] e.el = "resourceService" -> cc_setResourceServiceAttributes(b)
      [] e.el = "resource/uri" -> cc_setResourceServiceTextBody(b, "uri", e)
      [] e.el = "resource/userColonPass" ->
            cc_setResourceServiceTextBody(b, "userColonPass", e)
      [] e.el = "resource/timeoutSeconds" -> cc_setResourceServiceTimeoutBody(b, e)
      [] e.el = "resource/param" ->
            cc_setResourceServiceTimeoutBody(
                cc_setResourceServiceParamAttributes(b, e), e)
      [] e.el = "service" -> cc_setCCServiceAttributes(b, e)
      [] e.el = "service/uri" -> cc_setCCServiceUriBody(b, e)
      [] e.el = "service/timeoutSeconds" -> cc_setCCServiceTimeoutBody(b, e)
      [] e.el = "service/param" ->
            cc_setCCServiceParamBody(cc_setCCServiceParamAttributes(b, e), e)
      [] e.el = "service/end" -> cc_setCCServiceEnd(b)

cc_loadConfigCoreFile(doc, cc) ==
    LET after[n \in 0 .. Len(doc)] ==
            IF n = 0 THEN Bundle(cc)
            ELSE LET b == after[n - 1]
                 IN  IF b.alive THEN Handled(b, doc[n]) ELSE b
    IN  after[Len(doc)]

-----------------------------------------------------------------------------
(* Documents.                                                              *)
ServiceParts == {"service/uri", "service/timeoutSeconds", "service/param"}
ResourceParts == {"resource/uri", "resource/userColonPass", "resource/timeoutSeconds",
                  "resource/param"}

Element ==
    [el : Copied \cup Flags \cup ServiceParts \cup ResourceParts
          \cup {"sheapPageSize", "autoRefreshWaitSeconds", "messageBroker",
                "resourceService", "service", "service/end"},
     id : Maybe, name : Maybe, body : Maybe]
    \cup [el : {"broker"}, id : {Null}, name : BrokerTexts \cup BrokerNumbers, body : Maybe]

\* The parts of a service stand between its start and its end; those of the
\* resource service and of the broker come after these.
WellNested(doc) ==
    \A n \in DOMAIN doc :
        /\ doc[n].el \in ServiceParts \cup {"service/end"} =>
              n - 1 \in DOMAIN doc /\ doc[n - 1].el \in {"service"} \cup ServiceParts
        /\ doc[n].el \in {"service"} \cup ServiceParts =>
              n + 1 \in DOMAIN doc /\ doc[n + 1].el \in ServiceParts \cup {"service/end"}
        /\ doc[n].el \in ResourceParts => \E m \in 1 .. n : doc[m].el = "resourceService"
        /\ doc[n].el = "broker" => \E m \in 1 .. n : doc[m].el = "messageBroker"

Document(doc) == doc \in Seq(Element) /\ WellNested(doc)

-----------------------------------------------------------------------------
(* What a document says.                                                   *)
At(doc, el, lo, hi) == {n \in lo .. hi : doc[n].el = el}
Latest(S) == CHOOSE n \in S : \A m \in S : m <= n
Earliest(S) == CHOOSE n \in S : \A m \in S : n <= m

\* The last body written for el between lo and hi.
Says(doc, el, lo, hi, default) ==
    LET S == At(doc, el, lo, hi)
    IN  IF S = {} THEN default ELSE doc[Latest(S)].body

SaysNumber(doc, el, lo, hi, default) ==
    LET t == Says(doc, el, lo, hi, Null)
    IN  IF t = Null THEN default ELSE Number[t]

\* What a setting is that the file does not have.
Default == [nameSpace |-> Null, homeDir |-> "home", sheapMapFile |-> "/pid.shm",
            databaseFile |-> Null]

\* The wait is left alone by an element without a body.
Waits(doc, last) ==
    {n \in At(doc, "autoRefreshWaitSeconds", 1, last) : doc[n].body # Null}

SettingsAsWritten(cc, doc, last) ==
    /\ \A f \in Copied : cc[f] = Says(doc, f, 1, last, Default[f])
    /\ \A f \in Flags : cc[f] = (Says(doc, f, 1, last, Null) \in On)
    /\ cc.sheapPageSize = SaysNumber(doc, "sheapPageSize", 1, last, 0)
    /\ cc.autoRefreshWaitSeconds =
         IF Waits(doc, last) = {} THEN 20 ELSE Number[doc[Latest(Waits(doc, last))].body]

\* The last body of part f of the broker that starts there.
BrokerSays(doc, f, start, last) ==
    LET S == {n \in At(doc, "broker", start, last) : doc[n].name = f}
    IN  IF S = {} THEN Null ELSE doc[Latest(S)].body

BrokerIs(broker, doc, start, last) ==
    /\ \A f \in BrokerTexts : broker[f] = BrokerSays(doc, f, start, last)
    /\ \A f \in BrokerNumbers :
         broker[f] = LET t == BrokerSays(doc, f, start, last)
                     IN  IF t = Null THEN cm_newMessageBrokerObj[f] ELSE Number[t]

BrokerAsWritten(cc, doc, last) ==
    LET starts == At(doc, "messageBroker", 1, last)
    IN  IF starts = {} THEN cc.messageBroker = Null
        ELSE BrokerIs(cc.messageBroker, doc, Latest(starts), last)

\* The last body of a param p of the service that starts and ends there.
ParamSays(doc, p, start, end) ==
    LET S == {n \in At(doc, "service/param", start, end) : doc[n].name = p}
    IN  IF S = {} THEN Null ELSE doc[Latest(S)].body

ServiceAsWritten(svc, doc, start, end) ==
    /\ svc.id = doc[start].id /\ svc.name = doc[start].name
    /\ svc.uri = Says(doc, "service/uri", start, end, Null)
    /\ svc.timeoutSeconds = SaysNumber(doc, "service/timeoutSeconds", start, end, 2)
    /\ DOMAIN svc.params = {p \in Text : ParamSays(doc, p, start, end) # Null}
    /\ \A p \in DOMAIN svc.params : svc.params[p] = ParamSays(doc, p, start, end)

EndOf(doc, start) == Earliest(At(doc, "service/end", start, Len(doc)))
Nth(doc, start) == Cardinality(At(doc, "service", 1, start))

ServicesAsWritten(cc, doc) ==
    LET starts == At(doc, "service", 1, Len(doc))
    IN  /\ \A n \in DOMAIN cc.services : \E start \in starts : Nth(doc, start) = n
        /\ \A start \in starts :
              /\ Nth(doc, start) \in DOMAIN cc.services
              /\ ServiceAsWritten(cc.services[Nth(doc, start)], doc, start, EndOf(doc, start))

\* But for the timeout of a resource service with parameters.
ResourceAsWritten(cc, doc, last) ==
    LET starts == At(doc, "resourceService", 1, last)
        start == Latest(starts)
    IN  IF starts = {} THEN cc.resourceService = Null
        ELSE /\ \/ At(doc, "resource/param", start, last) # {}
                \/ cc.resourceService.timeoutSeconds =
                     SaysNumber(doc, "resource/timeoutSeconds", start, last, 2)
             /\ cc.resourceService.uri = Says(doc, "resource/uri", start, last, Null)
             /\ cc.resourceService.userColonPass =
                  Says(doc, "resource/userColonPass", start, last, Null)

AsWritten(cc, doc) ==
    /\ SettingsAsWritten(cc, doc, Len(doc))
    /\ BrokerAsWritten(cc, doc, Len(doc))
    /\ ServicesAsWritten(cc, doc)
    /\ ResourceAsWritten(cc, doc, Len(doc))

\* What is to stand before the database file and behind the address of the
\* resource service.
DirectoryOf(doc) ==
    IF Says(doc, "databaseFile", 1, Len(doc), Null) = Null THEN Null
    ELSE Says(doc, "homeDir", 1, Len(doc), Default.homeDir)

SpaceOf(doc) ==
    LET starts == At(doc, "resourceService", 1, Len(doc))
    IN  IF starts = {} \/ Says(doc, "resource/uri", Latest(starts), Len(doc), Null) = Null
        THEN Null
        ELSE Says(doc, "nameSpace", 1, Len(doc), Null)
=============================================================================
