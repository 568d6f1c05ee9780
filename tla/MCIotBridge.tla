---------------------------- MODULE MCIotBridge ----------------------------
EXTENDS IotBridge

CONSTANTS d, e, h

MCDevices == {d, e}
MCCallers == {h}
=============================================================================
