------------------------------ MODULE MCKeyStore ------------------------------
(* Small directories for TLC: one key whose five files may each be whole,     *)
(* short or missing, beside another key and beside files of other names.      *)
EXTENDS KeyStore

Parts == {"key", "iv", "pub", "priv", "ctype"}
Name(part, id) == <<"app", part, id>>

\* The files of one key, as status says of each part; "none" is a missing file.
FilesOf(id, status) ==
    [f \in {Name(p, id) : p \in {q \in Parts : status[q] # "none"}} |-> status[f[2]]]

Join(d, e) == [f \in DOMAIN d \cup DOMAIN e |-> IF f \in DOMAIN d THEN d[f] ELSE e[f]]

Any     == {FilesOf("355", s) : s \in {t \in [Parts -> {"none", "short", "whole"}] :
                                         t["priv"] # "short"}}
Others  == {FilesOf("315", [p \in Parts |-> "whole"]),
            FilesOf("315", [p \in Parts |-> IF p = "ctype" THEN "none" ELSE "whole"]),
            FilesOf("retail", [p \in Parts |-> IF p = "key" THEN "whole" ELSE "none"])}
Strays  == {[f \in {} |-> "whole"], [f \in {<<"app", "oldkey", "355">>, <<"appkey">>} |-> "whole"],
            [f \in {<<"app", "key", "3", "55">>, <<"apps", "key", "355">>,
                         <<"lv1", "key", "355">>} |-> "whole"]}

MCDirectories ==
    {[f \in {} |-> "whole"]} \cup {Join(Join(a, o), s) : a \in Any, o \in Others, s \in Strays}

MCSuffixes == { [fields |-> <<"354">>, atoi |-> 354, retail |-> FALSE],
                [fields |-> <<"331">>, atoi |-> 331, retail |-> FALSE],
                [fields |-> <<"retail">>, atoi |-> 0, retail |-> TRUE] }

MCWords    == {"app", "apps", "appkey", "oldkey", "lv1", "3", "55", "354", "331", "retail",
                "(null)", "092", "315", "341", "350", "355", "356"} \cup Parts
MCTypes    == {"app", "npdrm"}
MCKeyWords == {"key", "oldkey", "appkey"}
MCLonger   == {<<"apps", "app">>, <<"appkey", "app">>}
===============================================================================
