--------------------------- MODULE MCCanSerialPort ---------------------------
EXTENDS CanSerialPort

\* CanDeviceStm32: every frame is written as it is and removed.
Stm32Removes == {TRUE}
\* CanDeviceLawicel: the device may first need other commands.
LawicelRemoves == BOOLEAN
=============================================================================
