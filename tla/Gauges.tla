------------------------------- MODULE Gauges -------------------------------
(***************************************************************************)
(* The gauges of /metrics beside the gateway they show.  The queue sets    *)
(* its gauge in each of its operations (queue/admission_queue.py); the     *)
(* gauges of the backends are copied from the rows at the end of a tick    *)
(* and by a scrape (metrics/sync.py).                                      *)
(***************************************************************************)
EXTENDS Gateway

\* gauges.depth, and gauges.rows: what is shown of each backend.
VARIABLE gauges

\* sync_backend_gauges.  The rows of Gateway have no latency averages.
Shown(rows) ==
  [b \in Backends |->
     [inflight |-> rows[b].inflight, errors |-> rows[b].errors,
      circuit |-> rows[b].circuit]]

\* The scheduler has made its first tick when the server takes a request.
GInit ==
  /\ Init
  /\ gauges = [depth |-> 0, rows |-> Shown(backend)]

\* A step that shows nothing.
Unshown == UNCHANGED gauges

\* _update_gauges_locked.
ShowDepth == gauges' = [gauges EXCEPT !.depth = Len(queue')]

GaugedArrive(r) ==
  /\ Arrive(r)
  /\ IF HasRoom(queue) THEN ShowDepth ELSE Unshown

\* Mutant of GaugedTickBegin: a tick without a batch leaves before the copy.
TickBeginReturnsEarly == TickBegin /\ ShowDepth

\* A tick without a batch ends here.
GaugedTickBegin ==
  /\ TickBegin
  /\ gauges' = [ depth |-> Len(queue'),
                 rows |-> IF ticking' THEN gauges.rows ELSE Shown(backend') ]

\* Mutant of GaugedTickEnd: putting back leaves the gauge as popping set it.
RequeueUnshown == TickEnd /\ gauges' = [gauges EXCEPT !.rows = Shown(backend')]

\* requeue_front is called only with something to put back.
GaugedTickEnd ==
  /\ TickEnd
  /\ gauges' = [ depth |-> IF held = <<>> THEN gauges.depth ELSE Len(queue'),
                 rows |-> Shown(backend') ]

GaugedTick ==
  \/ GaugedTickBegin
  \/ GaugedTickEnd
  \/ \E r \in Requests :
       (Skip(r) \/ RejectOverdue(r) \/ Hold(r) \/ Assign(r)) /\ Unshown

\* GET /metrics renders the gauges and then copies the rows into them.
Scrape ==
  /\ LoopFree
  /\ gauges' = [gauges EXCEPT !.rows = Shown(backend)]
  /\ UNCHANGED vars

GNext ==
  \/ Scrape
  \/ GaugedTick
  \/ \E b \in Backends : Cooldown(b) /\ Unshown
  \/ \E r \in Requests :
       \/ GaugedArrive(r)
       \/ (Age(r) \/ TimerFires(r) \/ Resume(r) \/ Proceed(r)) /\ Unshown

gaugeVars == <<vars, gauges>>

GSpec == GInit /\ [][GNext]_gaugeVars

\* The scheduler's loop comes round whether or not there is work.
GFairSpec == GSpec /\ Fairness /\ WF_gaugeVars(GaugedTick)

-----------------------------------------------------------------------------

\* Whenever /metrics can be scraped, its queue depth is that of all requests
\* without a backend, although each tick takes a batch of them out of the queue
\* and may put it back (admission_queue.py, dispatcher.py).
QueueShown == LoopFree => gauges.depth = Len(Line)

\* However requests, results and cooldowns go on changing the rows, the gauges
\* of the backends show them as they are again and again, also when the
\* scheduler has nothing to do and nobody scrapes (dispatcher.py:40).
GaugesCatchUp == []<>(gauges.rows = Shown(backend))

=============================================================================
