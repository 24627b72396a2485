--------------------------- MODULE MCCompletionPath ---------------------------
(* Two runs, a config with a server and the search, one with two servers    *)
(* and two with an output schema; administrators change the credential of   *)
(* a server.                                                                *)
EXTENDS CompletionPath

CONSTANTS r1, r2, u1, u2, agent, broad, extract, tree, blank, hub, shop, c1, s1, s2

Credential(type, fields) == [type |-> type, fields |-> [f \in FieldNames |->
  IF f \in DOMAIN fields THEN fields[f] ELSE Absent]]

Exchange_(audience) ==
  Credential("delegated_identies_exchange", [audience |-> audience, scopes |-> hub])

Bearer == Credential("bearer_auth", [token |-> hub])
M2M    == Credential("m2m_identies", <<>>)

MCPayloads ==
  {Exchange_(hub), Exchange_(shop), Exchange_(blank), Bearer, M2M}

Settings(type, schema, priced, tools_) ==
  [type |-> type, schema |-> schema, priced |-> priced, tools |-> tools_, rounds |-> 1]

MCConfig == [s \in Slugs |->
  CASE s = agent   -> Settings("chat", "none", TRUE, {s1, Search})
    [] s = broad   -> Settings("chat", "none", TRUE, {s1, s2})
    [] s = extract -> Settings("scan", "flat", FALSE, {Search})
    [] s = tree    -> Settings("chat", "nested", FALSE, {})]

MCDefaultSlug == [chat |-> agent, scan |-> extract, summary |-> Absent]

MCCredentialOf == [s \in Servers |-> IF s = s1 THEN c1 ELSE Absent]

Ask(kind, u, slug_, stream, url) ==
  [kind |-> kind, user |-> u, model |-> slug_, unknown |-> FALSE, stream |-> stream, url |-> url]

Stream == Ask("chat", u1, Absent, TRUE, "none")

MCRequests ==
  {Stream, Ask("chat", u2, broad, FALSE, "none"), Ask("chat", u1, tree, FALSE, "none"),
   Ask("scan", u1, Absent, FALSE, "good"), Ask("scan", u1, Absent, FALSE, "bad"),
   Ask("summary", u2, Absent, FALSE, "none"), Ask("summary", u2, extract, FALSE, "good")}

(* The first run is a stream; the credential, or the server with it, is     *)
(* there or yet to be made, the other server has none.  Administrators make *)
(* their change beside summaries, which run without tools; two chats and a  *)
(* chat beside a scan are left to themselves.                               *)
MCInit ==
  /\ Init
  /\ req[r1] = Stream /\ req[r2] # req[r1]
  /\ masterKey = 1
  /\ credential[c1] \in {New(p, "live") : p \in {Exchange_(hub), Bearer, M2M}} \cup {New(Bearer, "absent")}
  /\ servers[s1] = "live" <=> credential[c1].type # "bearer_auth"
  /\ servers[s2] = "live"
  /\ req[r2].kind = "chat" => credential[c1].type # "m2m_identies"
  /\ changes = IF req[r2].kind # "summary" THEN MaxChanges ELSE 0

MCSpec == MCInit /\ [][Next]_vars
=============================================================================
