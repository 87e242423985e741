------------------------ MODULE MCLibSwitchLifecycle ------------------------
EXTENDS LibSwitchLifecycle

OneCall == {CHOOSE c \in Calls : TRUE}

MCNumber == [t \in Text |-> IF t = "5" THEN 5 ELSE 0]

El(el, id, name, body) == [el |-> el, id |-> id, name |-> name, body |-> body]
Setting(el, body) == El(el, Null, Null, body)
Elements(S, max) == UNION {[1 .. n -> S] : n \in 0 .. max}

Services(id, name, parts) ==
    {<<El("service", id, name, Null)>> \o p \o <<Setting("service/end", Null)>> : p \in parts}

Param == El("service/param", Null, "config-xml", "a")
Good == Services("SWITCH-CONFIG", "switchConfig", {<<Param>>})
Odd ==
    Services("SWITCH-CONFIG", "a", {<<Param>>})
    \cup Services("SWITCH-CONFIG", "switchConfig", {<<>>})
    \cup Services("a", Null, {<<>>})
Other == {<<>>} \cup Odd \cup Good

Database == Setting("databaseFile", "a")
Settings ==
    {<<Database, Setting("sheapPageSize", "5")>>, <<Database>>,
     <<Setting("sheapPageSize", "5")>>,
     <<Database, Setting("sheapPageSize", "5"), Setting("homeDir", Null)>>}
Modes ==
    {<<>>, <<Setting("threaded", "on")>>}
Sources ==
    {<<>>, <<Setting("messageBroker", Null)>>, <<Setting("enableAutoRefresh", "on")>>,
     <<Setting("enableAutoRefresh", "on"), Setting("resourceService", Null)>>}
Usual == <<Database, Setting("sheapPageSize", "5"), Setting("messageBroker", Null)>>

Site(conf, file, doc, calls, n, m) ==
    [conf |-> conf, file |-> file, doc |-> doc, faults |-> {}, calls |-> calls,
     lookups |-> n, refreshes |-> m]

NameSpace == Setting("nameSpace", "a")

\* Two calls at any time; and with a lookup, where they fail.
Overlaps ==
    {Site(Commands, "good", <<NameSpace>> \o Usual \o s, Calls, 0, 0) : s \in Good}
    \cup {Site(Commands, "good", <<Setting("sheapPageSize", "5")>> \o s, Calls, 1, 0) :
        s \in Good}
    \cup {Site(Commands, "malformed", <<>>, Calls, 1, 0)}
    \cup {Site(conf, "good", <<NameSpace>> \o Usual \o s, Calls, 1, 0) :
        conf \in {NoFile, {}, {"HomeDir"}}, s \in Good}

\* One call, with lookups and refreshes, of every kind of installation.
Lives ==
    {Site(Commands, "good", a \o b \o c \o s, OneCall, 1, 2) :
        a \in Settings, b \in Modes, c \in Sources, s \in Good}
    \cup {Site(Commands, "good", Usual \o b \o s \o t, OneCall, 2, 1) :
        b \in Modes, s \in Good \cup Odd, t \in Other}

\* Where something is amiss, or the host has no namespace.
Flawed ==
    {[Site(Commands, "good", <<NameSpace>> \o Usual \o a \o b \o s, OneCall, 1, 1)
        EXCEPT !.faults = f] :
        a \in Modes, b \in {<<>>} \cup {c \in Sources : Len(c) = 2}, s \in Good,
        f \in {{}} \cup {{x} : x \in Faults}}

\* Documents of any elements.
Parts == {Setting("service/uri", "a"), Setting("service/timeoutSeconds", "5"),
          Setting("service/timeoutSeconds", Null),
          El("service/param", Null, "config-xml", "a"),
          El("service/param", Null, "a", Null), El("service/param", Null, Null, "5")}
Resources ==
    Elements({Setting("resourceService", Null), Setting("resource/uri", "a"),
              Setting("resource/timeoutSeconds", "5"), Setting("resource/userColonPass", "a"),
              El("resource/param", Null, "a", "on"), NameSpace}, 3)
Brokers ==
    Elements({Setting("messageBroker", Null), El("broker", Null, "port", Null)}
             \cup {El("broker", Null, f, b) : f \in {"port", "waitTimeSeconds"}, b \in {"5", "a"}}
             \cup {El("broker", Null, "host", b) : b \in {"a", Null}}, 2)
Plain ==
    Elements({Setting("sheapPageSize", "5"), Setting("sheapPageSize", Null), NameSpace}
             \cup {Setting(f, b) : f \in {"autoRefreshWaitSeconds", "homeDir"}, b \in {"5", Null}}
             \cup {Setting(f, "a") : f \in {"enableAutoRefresh", "sheapMapFile", "databaseFile"}},
             2)
Nested ==
    {d \in Resources : d = <<>> \/ d[1].el = "resourceService"}
    \cup {<<Setting("messageBroker", Null)>> \o d : d \in Brokers}
    \cup Plain
    \cup UNION {{s \o t : t \in Services("SWITCH-CONFIG", "a", Elements(Parts, 1))} :
                    s \in Services("SWITCH-CONFIG", Null, Elements(Parts, 2))
                          \cup Services(Null, "a", Elements(Parts, 1))}
Readings == {Site(Commands, "good", d, OneCall, 0, 0) : d \in Nested}

MCSites == Overlaps \cup Lives \cup Flawed \cup Readings
=============================================================================
