---------------------------- MODULE MCHttpEvent ----------------------------
(* HttpEvent with the limits of hakuMind.h and texts on both sides of each.  *)
EXTENDS HttpEvent

Plain == [name |-> 4, data |-> 20, digits |-> <<>>, blank |-> TRUE]
Content(d) == [name |-> 14, data |-> Len(d), digits |-> d, blank |-> TRUE]

AllGood == [m \in Members |-> "good"]

(* The gateway's request for an event of 12 bytes. *)
Event == [method |-> "POST", length |-> 4, path |-> 1, quit |-> FALSE, protocol |-> 8,
          headers |-> <<Plain, Content(<<1, 2>>)>>, body |-> 12, object |-> 12,
          is |-> AllGood, type |-> "message", name |-> "group"]

Private == [Event EXCEPT !.name = "private"]
Beat == [Event EXCEPT !.type = "meta_event", !.name = "other"]
Notice == [Event EXCEPT !.type = "other"]
QuitType == [Event EXCEPT !.type = "QUIT"]
Quit == [Event EXCEPT !.method = "GET", !.length = 3, !.path = 5, !.quit = TRUE,
                      !.headers = <<Plain>>, !.body = 0, !.object = 0]
QuitEvent == [Event EXCEPT !.path = 5, !.quit = TRUE]

Methods == {[Event EXCEPT !.method = "other", !.length = n] : n \in {3, 7, 8}}
Paths == {[Event EXCEPT !.path = n] : n \in {7, 8, 9, 127, 128, 129, 134, 135}}
Protocols == {[Event EXCEPT !.protocol = n] : n \in {15, 16}}

Fill(n) == [k \in 1..n |-> Plain]
HeaderLists ==
  {[Event EXCEPT !.headers = h] :
     h \in {<<>>, Fill(2), Fill(30) \o <<Content(<<1, 2>>)>>, Fill(31) \o <<Content(<<1, 2>>)>>,
            Fill(32) \o <<Content(<<1, 2>>)>>,
            <<[Plain EXCEPT !.name = 31], Content(<<1, 2>>), [Plain EXCEPT !.data = 255]>>,
            <<Content(<<1, 2>>), [Plain EXCEPT !.name = 32]>>,
            <<Content(<<1, 2>>), Plain, [Plain EXCEPT !.data = 256]>>,
            <<[Content(<<1, 2>>) EXCEPT !.blank = FALSE]>>,
            <<Content(<<1, 1>>)>>, <<Content(<<1, 3>>)>>, <<Content(<<0>>)>>,
            <<Content(<<0, 1, 2>>), Content(<<1, 0>>)>>}}

(* Two requests in one read; only the head of one; no JSON at all. *)
Bodies == {[Event EXCEPT !.body = 30], [Event EXCEPT !.body = 0], [Event EXCEPT !.body = 5],
           [Event EXCEPT !.object = 0]}

OneBad(r) ==
  {[r EXCEPT !.is = [AllGood EXCEPT ![m] = s]] : m \in Members, s \in {"missing", "mistyped"}}

AllRequests ==
  {Event, Private, Beat, Notice, QuitType, Quit, QuitEvent, [Quit EXCEPT !.path = 6, !.quit = FALSE]}
  \union Methods \union Paths \union Protocols \union HeaderLists \union Bodies
  \union OneBad(Event) \union OneBad(Private) \union OneBad(Beat)
=============================================================================
