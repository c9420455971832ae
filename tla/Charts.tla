-------------------------------- MODULE Charts --------------------------------
(***************************************************************************)
(* What the charts of monitor.html show: the way of a measurement from the *)
(* tool that prints it to the line that is drawn.  The agent reads the     *)
(* columns of jstat and jstack by position, the monitor converts some of   *)
(* them and stores them, the page picks the properties of the stored rows  *)
(* by name.                                                                *)
(*                                                                         *)
(* Source: CoreController, Jstat and Jstack of the agent, MonitiorTask and *)
(* the entities of the monitor, static/js/*.js.  A measurement is the      *)
(* column it comes from and the unit it is in; colours, axes and tooltips  *)
(* are left out.                                                           *)
(***************************************************************************)
EXTENDS Naturals, Sequences, Functions

-----------------------------------------------------------------------------
(* The agent.                                                              *)

Measure(column, unit) == [column |-> column, unit |-> unit]
Columns(names, unit) == [i \in 1..Len(names) |-> Measure(names[i], unit)]

\* The columns that jstat prints for a JDK 1.8, and what jstack is searched for.
JstatGc == Columns(<<"S0C", "S1C", "S0U", "S1U", "EC", "EU", "OC", "OU",
                     "MC", "MU", "CCSC", "CCSU">>, "KB")
           \o <<Measure("YGC", "times"), Measure("YGCT", "s"), Measure("FGC", "times"),
                Measure("FGCT", "s"), Measure("GCT", "s")>>
JstatClass == <<Measure("Loaded", "count"), Measure("BytesLoaded", "KB"),
                Measure("Unloaded", "count"), Measure("BytesUnloaded", "KB"),
                Measure("ClassTime", "s")>>
JstatCompiler == Columns(<<"Compiled", "Failed", "Invalid">>, "count")
                 \o <<Measure("CompileTime", "s"), Measure("FailedType", "text"),
                      Measure("FailedMethod", "text")>>
JstackCounts == Columns(<<"nid", "RUNNABLE", "TIMED_WAITING", "WAITING">>, "count")

\* jstat: of the compiler's columns the first four, otherwise all.
jstat(option) == CASE option = "-gc" -> JstatGc
                   [] option = "-class" -> JstatClass
                   [] option = "-compiler" -> SubSeq(JstatCompiler, 1, 4)

jstatClass == jstat("-class") \o jstat("-compiler")

\* An entity whose properties, named as its getters are in JSON, are set from
\* the columns in their order.
Entity(properties, columns) ==
    [p \in Range(properties) |-> columns[CHOOSE i \in DOMAIN properties : properties[i] = p]]

\* Mutant: the setters in the order capacity, usage of each space, as for Eden.
gcBySpace == Entity(<<"s0C", "s0U", "s1C", "s1U", "ec", "eu", "oc", "ou", "mc", "mu",
                      "ccsc", "ccsu", "ygc", "ygct", "fgc", "fgct", "gct">>, jstat("-gc"))

gc == Entity(<<"s0C", "s1C", "s0U", "s1U", "ec", "eu", "oc", "ou", "mc", "mu",
               "ccsc", "ccsu", "ygc", "ygct", "fgc", "fgct", "gct">>, jstat("-gc"))

classload == Entity(<<"loaded", "bytes1", "unloaded", "bytes2", "time1",
                      "compiled", "failed", "invalid", "time2">>, jstatClass)

threads == Entity(<<"total", "runnable", "timed_WAITING", "waiting">>, JstackCounts)

-----------------------------------------------------------------------------
(* The monitor.                                                            *)

\* getMB: from KB to MB, rounded.
getMB(m) == [m EXCEPT !.unit = "MB"]
Converted(entity, properties) ==
    [p \in DOMAIN entity |-> IF p \in properties THEN getMB(entity[p]) ELSE entity[p]]

pullGc == Converted(gc, {"s0C", "s1C", "s0U", "s1U", "ec", "eu", "oc", "ou", "mc", "mu",
                         "ccsc", "ccsu"})
pullClassload == Converted(classload, {"bytes1", "bytes2"})
pullThread == threads

\* What a row of each table holds, and an answer to the page with it.
Row == [gc |-> pullGc, cl |-> pullClassload, thread |-> pullThread]

-----------------------------------------------------------------------------
(* The page: each chart has a unit and draws, for each name in its legend, *)
(* a property of the rows over their dates.                                *)

Chart(unit, lines) == [unit |-> unit, lines |-> lines]

s0 == Chart("MB", [SOC |-> "s0C", SOU |-> "s0U"])
s1 == Chart("MB", [S1C |-> "s1C", S1U |-> "s1U"])
eden == Chart("MB", [EC |-> "ec", EU |-> "eu"])
old == Chart("MB", [OC |-> "oc", OU |-> "ou"])
mc == Chart("MB", [MC |-> "mc", MU |-> "mu"])
ccsc == Chart("MB", [CCSC |-> "ccsc", CCSU |-> "ccsu"])
gcn == Chart("times", [YGC |-> "ygc", FGC |-> "fgc"])
gct == Chart("s", [YGCT |-> "ygct", FGCT |-> "fgct", GCT |-> "gct"])
classn == Chart("count", [Loaded |-> "loaded", UnLoaded |-> "unloaded"])
classt == Chart("s", [Time |-> "time1"])
comn == Chart("count", [Compiled |-> "compiled", Failed |-> "failed", Invalid |-> "invalid"])
comt == Chart("s", [Time |-> "time2"])
combyte == Chart("MB", [Loaded |-> "bytes1", Unloaded |-> "bytes2"])

thread == Chart("count", [Total |-> "total", Waiting |-> "waiting",
                          Runnable |-> "runnable", Sleeping |-> "timed_WAITING"])

Charts == [s0 |-> s0, s1 |-> s1, eden |-> eden, old |-> old, mc |-> mc, ccsc |-> ccsc,
           gcn |-> gcn, gct |-> gct, classn |-> classn, classt |-> classt, comn |-> comn,
           comt |-> comt, combyte |-> combyte, thread |-> thread]

\* The charts that the callback of each topic draws, in its order.
Callback == [gc |-> <<"s0", "s1", "eden", "old", "mc", "ccsc", "gcn", "gct">>,
             cl |-> <<"classn", "classt", "comn", "comt", "combyte">>,
             thread |-> <<"thread">>]

\* The scripts of the charts, in the order monitor.html loads them; util.js and
\* socket.js, which opens the connections, come before them.
Scripts == <<"s0", "s1", "eden", "old", "mc", "ccsc", "gcn", "gct",
             "classn", "classt", "comn", "comt", "combyte", "thread">>

-----------------------------------------------------------------------------
(* What the legends name.                                                  *)

Meaning == [s0 |-> [SOC |-> "S0C", SOU |-> "S0U"], s1 |-> [S1C |-> "S1C", S1U |-> "S1U"],
            eden |-> [EC |-> "EC", EU |-> "EU"], old |-> [OC |-> "OC", OU |-> "OU"],
            mc |-> [MC |-> "MC", MU |-> "MU"], ccsc |-> [CCSC |-> "CCSC", CCSU |-> "CCSU"],
            gcn |-> [YGC |-> "YGC", FGC |-> "FGC"],
            gct |-> [YGCT |-> "YGCT", FGCT |-> "FGCT", GCT |-> "GCT"],
            classn |-> [Loaded |-> "Loaded", UnLoaded |-> "Unloaded"],
            classt |-> [Time |-> "ClassTime"],
            comn |-> [Compiled |-> "Compiled", Failed |-> "Failed", Invalid |-> "Invalid"],
            comt |-> [Time |-> "CompileTime"],
            combyte |-> [Loaded |-> "BytesLoaded", Unloaded |-> "BytesUnloaded"],
            thread |-> [Total |-> "nid", Waiting |-> "WAITING",
                        Runnable |-> "RUNNABLE", Sleeping |-> "TIMED_WAITING"]]

\* The glossary of the monitored parameters (README.md lines 109-126): the columns it
\* gives in a unit of size or time.  MC and CCSC it names without one, and the
\* others it gives as numbers.
Glossary == [KB |-> {"S0C", "S1C", "S0U", "S1U", "EC", "EU", "OC", "OU", "MU", "CCSU"},
             s |-> {"YGCT", "FGCT", "GCT"}]

\* The unit in which the page shows what the glossary gives in unit u.  It is not
\* the glossary's where that says KB: the monitor has converted these to MB, and
\* their charts say MB.
ShownIn(u) == IF u = "KB" THEN "MB" ELSE u

\* Each line of chart c, drawn from rows of topic t, is the measurement its
\* legend names, in the unit the chart states; and that is the unit of the
\* glossary, but for the ten columns that it gives in KB and the charts show in MB.
Truthful(c, t) ==
    \A l \in DOMAIN Charts[c].lines :
        LET drawn == Row[t][Charts[c].lines[l]]
            column == Meaning[c][l]
        IN  /\ drawn = Measure(column, Charts[c].unit)
            /\ \A u \in DOMAIN Glossary : column \in Glossary[u] => drawn.unit = ShownIn(u)
=============================================================================
