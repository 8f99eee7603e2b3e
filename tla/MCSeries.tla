------------------------------ MODULE MCSeries ------------------------------
(* Two processes of one group (the pid cut from its name), and what a scan *)
(* may see of each: nothing, or a counter, a size and a metric of its own, *)
(* which may turn from a float into an integer.                            *)
EXTENDS Series

MCShortened == [g \in {"web.1", "web.2"} |-> "web"]

Time(g, p)    == [cgroup |-> g, metric |-> "user_time", pid |-> p]
Threads(g, p) == [cgroup |-> g, metric |-> "num_threads", pid |-> p]
Average(g, p) == [cgroup |-> g, group |-> "load", metric |-> "avg", pid |-> p]
Job           == [appname |-> "batch", group |-> "load", metric |-> "avg", pid |-> "2"]

Status        == [appname |-> "batch", state |-> "job", metric |-> "status", pid |-> "2"]

MCKey == {Time("web.1", "1"), Threads("web.1", "1"), Average("web.1", "1"),
          Time("web.2", "2"), Threads("web.2", "2"), Job, Status}

Nothing == [k \in {} |-> k]

One(time, load) ==
    [k \in {Time("web.1", "1"), Threads("web.1", "1"), Average("web.1", "1")} |->
        IF k = Time("web.1", "1") THEN [kind |-> "counter", val |-> time]
        ELSE IF k = Average("web.1", "1") THEN load
        ELSE [kind |-> "integer", val |-> 1]]
Two(time, load) ==
    [k \in {Time("web.2", "2"), Threads("web.2", "2"), Job, Status} |->
        IF k = Time("web.2", "2") THEN [kind |-> "counter", val |-> time]
        ELSE IF k = Job THEN load
        ELSE IF k = Status THEN [kind |-> "state", val |-> 1]
        ELSE [kind |-> "integer", val |-> 2]]

Float(n)   == [kind |-> "float", val |-> n]
Integer(n) == [kind |-> "integer", val |-> n]

Both(one, two) == [k \in MCKey |-> IF k \in DOMAIN one THEN one[k]
                                  ELSE IF k \in DOMAIN two THEN two[k] ELSE NoValue]

MCSamples ==
    {Both(one, two) : one \in {Nothing, One(2, Float(1))},
                      two \in {Nothing, Two(0, Float(2))}}
    \cup {Both(One(0, Float(0)), Two(2, Integer(2))), Both(One(2, Float(1)), Two(2, Integer(2))),
          Both(One(2, Integer(1)), Two(2, Integer(2)))}

MCTipValue ==
    {[kind |-> "counter", val |-> n] : n \in {0, 2}} \cup {Integer(1), Integer(2)}
    \cup {Float(n) : n \in 0..2} \cup {[kind |-> "state", val |-> 1]}

=============================================================================
