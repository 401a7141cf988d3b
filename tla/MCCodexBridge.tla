---------------------------- MODULE MCCodexBridge ----------------------------
\* TLC instances of CodexBridge.
EXTENDS CodexBridge

\* A monitor that is off or crashed hears nothing and never comes back, and its
\* queue only loses actions.
MonitorOn == monitor = "on"

\* The watches have the same code, so the first to hear may be the first.
FirstHearsFirst == events = 1 => pump["w2"] = Rest

\* Nothing reads a notification after the connection ended, and none starts a turn
\* after the bridge gave up.
FewLeftUnread == (~server.up \/ disabled) => Len(notes) <= 1
=============================================================================
