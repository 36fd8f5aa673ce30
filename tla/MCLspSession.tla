---------------------------- MODULE MCLspSession ----------------------------
EXTENDS LspSessionProperties, LspMethods

CONSTANTS client, server, RequestNames

\* One notification that has functions, and the one that has none.
MCNotifications == {NotificationMethod["DidOpenTextDocument"],
                    NotificationMethod["Progress"]}
NameOf(m) == CHOOSE name \in RequestNames : RequestMethod[name] = m

MCPeers == {client, server}
MCMethods == {RequestMethod[name] : name \in RequestNames} \cup MCNotifications
MCProgressMethod == NotificationMethod["Progress"]
MCRequestShape ==
  [m \in MCMethods |->
     IF m \in MCNotifications THEN "any" ELSE RequestResult[NameOf(m)]]
MCHandlerShape ==
  [m \in MCMethods |->
     IF m \in MCNotifications THEN "none" ELSE HandlerResult[NameOf(m)]]
MCSignals == {NotificationMethod[name] : name \in NotificationNames}
               \cap MCMethods
MCRegistrable == (MCMethods \ MCNotifications) \cup MCSignals
MCPartialResults == {RequestMethod[name] : name \in PartialHandlers}
                      \cap MCMethods
\* The client also sends, through typedRpc(), a notification under the method
\* of a request and a request under the method of a notification.
MCRequests ==
  client :> MCMethods \ {MCProgressMethod} @@ server :> MCMethods \ MCNotifications
MCNotificationsSent ==
  client :> MCMethods \ {MCProgressMethod} @@ server :> {}
MCConfiguring == {server}
=============================================================================
