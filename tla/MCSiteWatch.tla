---------------------------- MODULE MCSiteWatch -----------------------------
(* Small instances of SiteWatch.                                           *)
EXTENDS SiteWatch, TLC

CONSTANTS mail, hook, table1, table2, sender1, sender2

Names == {mail, hook, "main", "spare", "site", "other", "db", "dump"}

Keys == {"bucket", "access_key_id", "secret_access_key"}

Disk == [type |-> "local", directory |-> "absolute", present |-> {}, region |-> "",
         endpoint |-> "", prefix |-> "", primary |-> TRUE, source |-> "", url |-> ""]
Bucket == [Disk EXCEPT !.type = "s3", !.directory = "", !.present = Keys, !.region = "named",
                       !.primary = FALSE]
RemoteBucket == [Bucket EXCEPT !.present = {}, !.region = "", !.source = "remote",
                               !.url = "https"]

\* What providers answer: right, without a region, with half of the keys.
Answers == {[present |-> Keys, region |-> "named", endpoint |-> "https"],
            [present |-> Keys, region |-> "", endpoint |-> "odd"],
            [present |-> {"bucket"}, region |-> "auto", endpoint |-> "https"]}

Database == [name |-> "db", enabled |-> TRUE, engine |-> "mysql", auto_repair |-> TRUE,
             complete |-> TRUE]
TheSite == [name |-> "site", version |-> 2, enabled |-> TRUE, mode |-> "full",
            password |-> FALSE, include |-> {"absolute"}, exclude |-> {},
            databases |-> <<Database>>, destinations |-> <<>>,
            minimum_interval |-> 0, keep_last |-> 0]

Mail == [type |-> "smtp", present |-> {"host", "port", "from", "to"}, url |-> ""]
Hook == [type |-> "webhook", present |-> {"url"}, url |-> "https"]

Alerted == [name |-> "alerts", events |-> {"backup_failed", "backup_partial", "backup_cancelled"},
            channels |-> {mail}]
Everything == [name |-> "all", events |-> {"all"}, channels |-> {hook}]
Reported == [name |-> "reports", events |-> {"daily_report"}, channels |-> {mail, hook}]

Report == [enabled |-> TRUE, scheduled |-> TRUE, route |-> "reports"]

Good == [version |-> 2, app |-> TRUE, prefix |-> TRUE,
         storages |-> [n \in {"main"} |-> Disk], sites |-> <<TheSite>>,
         channels |-> (mail :> Mail @@ hook :> Hook),
         routes |-> {Alerted, Everything, Reported},
         reports |-> [k \in {"daily", "monthly"} |-> Report]]

\* Where the behaviour is about reports, the channels are told nothing else.
Quiet == [Good EXCEPT !.routes = {Reported}]
BoundsOf ==
    [runs |-> [configs |-> {Good}, clock |-> 2, scopes |-> {"full"}, runs |-> 3,
               reports |-> 0, faults |-> 2],
     scopes |-> [configs |-> {Good}, clock |-> 2, scopes |-> Scope, runs |-> 3,
                 reports |-> 0, faults |-> 1],
     reports |-> [configs |-> {Quiet}, clock |-> 3, scopes |-> {"full"}, runs |-> 2,
                  reports |-> 2, faults |-> 1]]

\* One thing at a time is different.
OddStorages ==
    {("main" :> Disk @@ "spare" :> st) :
        st \in {Bucket, RemoteBucket, Disk, [Disk EXCEPT !.primary = FALSE],
                [Bucket EXCEPT !.present = {"bucket"}], [Bucket EXCEPT !.region = ""],
                [Bucket EXCEPT !.endpoint = "http"], [Bucket EXCEPT !.prefix = "unsafe"],
                [RemoteBucket EXCEPT !.url = "http"], [RemoteBucket EXCEPT !.region = "auto"],
                [Bucket EXCEPT !.type = "r2", !.endpoint = "https", !.region = ""],
                [RemoteBucket EXCEPT !.type = "r2"], [Bucket EXCEPT !.type = "r2"],
                [Disk EXCEPT !.directory = "relative"], [Bucket EXCEPT !.type = "ftp"]}}
    \cup {("main" :> [st EXCEPT !.primary = TRUE]) :
            st \in {Bucket, RemoteBucket, [RemoteBucket EXCEPT !.type = "r2"]}}
    \cup {[n \in {} |-> Disk], "main" :> RemoteBucket}

OddSites ==
    LET sites ==
            {[TheSite EXCEPT !.mode = x] : x \in {"", "incremental", "mirror"}}
            \cup {[TheSite EXCEPT !.include = x] : x \in {{"relative"}, {}}}
            \cup {[TheSite EXCEPT !.databases = x] :
                    x \in {<<>>, <<Database, Database>>,
                           <<Database, [Database EXCEPT !.enabled = FALSE]>>,
                           <<[Database EXCEPT !.engine = "postgres"]>>,
                           <<[Database EXCEPT !.engine = "postgres", !.auto_repair = FALSE]>>,
                           <<[Database EXCEPT !.complete = FALSE]>>,
                           <<[Database EXCEPT !.engine = "oracle", !.enabled = FALSE]>>}}
            \cup {[TheSite EXCEPT !.destinations = x] : x \in {<<"main">>, <<"gone">>}}
            \cup {[TheSite EXCEPT !.exclude = {"broken"}], TheSite,
                  [TheSite EXCEPT !.minimum_interval = -1], [TheSite EXCEPT !.keep_last = -1]}
    IN  {<<[s EXCEPT !.enabled = e, !.password = p]>> : s \in sites, e, p \in BOOLEAN}
        \cup {<<TheSite, TheSite>>, <<TheSite, [TheSite EXCEPT !.name = "other"]>>,
              <<[TheSite EXCEPT !.version = 1]>>, <<[TheSite EXCEPT !.name = "-"]>>}

OddChannels ==
    {(mail :> ch @@ hook :> Hook) :
        ch \in {[Mail EXCEPT !.present = @ \cup {"username"}], [Mail EXCEPT !.present = {"host"}],
                [Mail EXCEPT !.present = @ \cup {"username", "password"}],
                [Mail EXCEPT !.type = "discord"], [Hook EXCEPT !.url = "http"],
                [type |-> "discord", present |-> {"webhook_url"}, url |-> "loopback"]}}
    \cup {[n \in {} |-> Hook], mail :> Mail}

OddRoutes ==
    {{}, {Alerted}, {Alerted, [Reported EXCEPT !.channels = {}]},
     {[Alerted EXCEPT !.events = {}], Reported}, {[Alerted EXCEPT !.events = {"odd"}], Reported}}

Candidates ==
    {Good, Quiet}
    \cup {[Good EXCEPT !.storages = x] : x \in OddStorages}
    \cup {[Good EXCEPT !.sites = x] : x \in OddSites}
    \cup {[Good EXCEPT !.channels = x] : x \in OddChannels}
    \cup {[Good EXCEPT !.routes = x] : x \in OddRoutes}
    \cup {[Good EXCEPT !.app = FALSE], [Good EXCEPT !.prefix = FALSE], [Good EXCEPT !.version = 1],
          [Good EXCEPT !.reports["daily"].scheduled = FALSE],
          [Good EXCEPT !.reports["monthly"].enabled = FALSE]}

Symmetric == Permutations(Sender)
=============================================================================
