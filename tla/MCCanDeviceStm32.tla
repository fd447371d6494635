-------------------------- MODULE MCCanDeviceStm32 --------------------------
EXTENDS CanDeviceStm32
=============================================================================
