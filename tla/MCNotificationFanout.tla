------------------------ MODULE MCNotificationFanout -------------------------
EXTENDS NotificationFanout

MCRecipients == {1, 2}
=============================================================================
