---------------------------- MODULE MCStoredReads ----------------------------
(***************************************************************************)
(* Three devices: 21, whose traffic is also stored under the numeric id    *)
(* 11; 31, whose traffic is also stored under its address 5; and 23, which *)
(* no metadata row names.  Polls end at two and three hours and a day      *)
(* later, one batch is late, and an older build writes before the first    *)
(* poll and between two of them.                                           *)
(***************************************************************************)
EXTENDS StoredReads

MCStable == {21, 31}
MCNumeric == {11, 23}
MCPseudo == {41}
MCAddresses == {3, 5}

Row(id, owner, ips) == [id |-> id, owner |-> owner, ips |-> ips, updated |-> 0]
MCMetadata == {Row(21, 7, {3}), Row(11, 7, {3}), Row(31, 8, {5})}
MCLogins == {7, 8}
MCScopes == {deviceFilter(ScopeOf({7}), "mine"), deviceFilter(ScopeOf({7, 8}), "mine"),
             deviceFilter(ScopeOf({7}), "all")}

Log(at, src, dst, type, proto, dport, tx) ==
    [at |-> at, src |-> src, dst |-> dst, type |-> type, proto |-> proto,
     sport |-> 40000, dport |-> dport, tx |-> tx, logger |-> src]

MCBatches == {"first", "late", "second", "nextDay", "old", "downgrade"}
MCOld == {"old", "downgrade"}

MCLogs ==
    [b \in MCBatches |->
        CASE b = "first" ->
               {Log(3600, 11, 31, "virtual", TCP, 443, 5), Log(3600, 31, 11, "virtual", TCP, 443, 3),
                [Log(3600, 99, 23, Physical, 0, 0, 20) EXCEPT !.logger = 21],
                Log(7140, 21, 5, "virtual", UDP, 53, 7)}
          [] b = "late" ->
               {Log(5400, 11, 31, "virtual", UDP, 53, 2), Log(7140, 21, 11, "subnet", TCP, 22, 4),
                Log(7200, 21, 23, "virtual", TCP, 443, 1),
                Log(5400, 31, 41, "exit", TCP, 443, 3), Log(5400, 23, 41, "exit", TCP, 443, 5)}
          [] b = "second" ->
               {Log(7200, 31, 31, "virtual", TCP, 443, 6), Log(7200, 21, 31, "virtual", TCP, 443, 9)}
          [] b = "nextDay" ->
               {Log(90000, 31, 21, "exit", TCP, 443, 1), Log(90000, 23, 31, "virtual", 1, 0, 2)}
          [] b = "old" ->
               {Log(3600, 21, 31, "virtual", TCP, 80, 10), Log(3600, 31, 21, "virtual", UDP, 0, 3)}
          [] OTHER ->
               {Log(7200, 31, 23, "virtual", TCP, 443, 8), Log(7200, 31, 23, "virtual", UDP, 0, 1)}]

MCPollEnd == [b \in MCBatches |-> CASE b = "first" -> 7200 [] b = "second" -> 10800
                                    [] b = "nextDay" -> 93600 [] OTHER -> 0]
MCNeeds == [b \in MCBatches |-> CASE b = "second" -> {"first"} [] b = "nextDay" -> {"second"}
                                  [] b = "downgrade" -> {"first"} [] OTHER -> {}]
MCOpenings == {7200, 10800, 93600}
MCCutoffs == {5430, 7200}
MCWindows == {<<3600, 7200>>, <<0, 10800>>, <<3630, 14430>>, <<3600, 93600>>, <<0, 176460>>}
MCTypeLists == {{}, {"virtual"}, {"virtual", Physical}}
=============================================================================
