-------------------------- MODULE MCNotifications ---------------------------
EXTENDS Notifications

\* Bound: the recorder goes once the locker has its backlog.  From then on neither has an
\* effect on the other, so what the two do side by side is not explored; nor is a locker
\* that has lost the bus, which does what one does that never drains its feed.
OneMonitorAtATime == /\ locker.phase = "monitoring" => recorder.life = "off"
                     /\ locker.phase # "lost"
=============================================================================
