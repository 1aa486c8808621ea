---------------------------- MODULE RestDispatch ----------------------------
(***************************************************************************)
(* webcc/rest_service_manager.cc, rest_request_handler.cc, rest_service.cc: *)
(* services are bound to URLs, and a request goes to the first one whose   *)
(* URL matches its path, then to the handler of its method.                *)
(***************************************************************************)
EXTENDS Naturals, Sequences, FiniteSetsExt

CONSTANTS Services,      \* the services an application has
          Detail,        \* those that are RestDetailServices; the others are
                         \* RestListServices
          Urls, Paths,   \* URLs to bind, paths of requests
          Captures,      \* of the URLs that are valid regular expressions, the
                         \* sub-matches for each path they match
          MaxBindings    \* bound on the number of Bind calls

None == "none"
Methods == {"GET", "POST", "PUT", "PATCH", "DELETE", "HEAD"}

VARIABLES items,    \* service_items_
          bound,    \* what the application asked for, in order
          routed    \* how the last request was handled
vars == <<items, bound, routed>>

Item(service, url, is_regex) == [service |-> service, url |-> url, is_regex |-> is_regex]

Init ==
    /\ items = <<>> /\ bound = <<>>
    /\ routed = [path |-> None, method |-> None, item |-> 0, matches |-> <<>>, handler |-> None]

AddService_PutsFront(service, url, is_regex) ==
    /\ Len(bound) < MaxBindings
    /\ bound' = Append(bound, Item(service, url, is_regex))
    /\ items' = IF is_regex /\ url \notin DOMAIN Captures THEN items
                ELSE <<Item(service, url, is_regex)>> \o items
    /\ UNCHANGED routed

\* RestServer::Bind, RestServiceManager::AddService.
AddService(service, url, is_regex) ==
    /\ Len(bound) < MaxBindings
    /\ bound' = Append(bound, Item(service, url, is_regex))
    /\ items' = IF is_regex /\ url \notin DOMAIN Captures THEN items
                ELSE Append(items, Item(service, url, is_regex))
    /\ UNCHANGED routed

Matches(item, path) ==
    IF item.is_regex THEN path \in DOMAIN Captures[item.url] ELSE item.url = path

\* RestServiceManager::GetService: the place of the first match, 0 if none.
GetService(path) ==
    LET found == {i \in 1..Len(items) : Matches(items[i], path)}
    IN  IF found = {} THEN 0 ELSE Min(found)

UrlMatches(i, path) == IF items[i].is_regex THEN Captures[items[i].url][path] ELSE <<>>

\* RestListService::Handle and RestDetailService::Handle.
Handler(service, method) ==
    LET own == IF service \in Detail THEN {"GET", "PUT", "PATCH", "DELETE"} ELSE {"GET", "POST"}
    IN  IF method \in own THEN method ELSE None

\* RestRequestHandler::HandleConnection, up to the service's own handler.
HandleConnection(path, method) ==
    LET i == GetService(path) IN
    /\ routed' = [path |-> path, method |-> method, item |-> i,
                  matches |-> IF i = 0 THEN <<>> ELSE UrlMatches(i, path),
                  handler |-> IF i = 0 THEN None ELSE Handler(items[i].service, method)]
    /\ UNCHANGED <<items, bound>>

Next ==
    \/ \E s \in Services, u \in Urls, r \in BOOLEAN : AddService(s, u, r)
    \/ \E p \in Paths, m \in Methods : HandleConnection(p, m)

Spec == Init /\ [][Next]_vars

-----------------------------------------------------------------------------
\* A binding that succeeded, for a path.
Covers(item, path) ==
    /\ item.is_regex => item.url \in DOMAIN Captures
    /\ Matches(item, path)

\* A path is without a service only when no Bind that succeeded covers it; otherwise
\* a request goes to the first URL bound that covers it, whatever was bound since,
\* and its service is handed the sub-matches of its own URL (AddService, GetService,
\* HandleConnection).  Which of several services bound to that same URL it is, is
\* left open: the first one, where rest_server.h has "only the last one takes effect".
RoutedAsBound ==
    /\ \A p \in Paths :
           GetService(p) = 0 => ~\E k \in 1..Len(bound) : Covers(bound[k], p)
    /\ routed.item # 0 =>
           \E k \in 1..Len(bound) :
               /\ bound[k] = items[routed.item]
               /\ Covers(bound[k], routed.path)
               /\ ~\E j \in 1..k - 1 : /\ bound[j].url # bound[k].url
                                       /\ Covers(bound[j], routed.path)
               /\ routed.matches = IF bound[k].is_regex
                                   THEN Captures[bound[k].url][routed.path] ELSE <<>>
=============================================================================
